---- MODULE Spec2Model ----
(***************************************************************************)
(* A model of the Leitner scheduling engine (src/src/leitner.py) and of    *)
(* the learning-session handlers (src/src/handlers/learning.py) of the     *)
(* English learning bot.                                                   *)
(*                                                                         *)
(* Dates are day numbers.  A progress row of the table user_word_progress  *)
(* is a record; the table is a function from the (user_id, word_id) pairs  *)
(* that have a row (the unique constraint uq_user_word) to their rows.     *)
(***************************************************************************)
EXTENDS Integers, Sequences, FiniteSets, TLC

\* ------------------------------------------------------------------ bounds

\* The last day the clock reaches.
MaxDay == 1

\* update_word_progress is no longer called on a row reviewed this often.
MaxReviews == 7

Users == {1, 2}

Words == {1, 2}

Days == 0..MaxDay

\* ------------------------------------------------------- program constants

\* The highest Leitner box (min(progress.leitner_box + 1, 7)).
MAX_BOX == 7

\* LEITNER_BOXES: days until the next review, by box.
LEITNER_BOXES == (1 :> 1) @@ (2 :> 2) @@ (3 :> 4) @@ (4 :> 7) @@ (5 :> 14) @@ (6 :> 30) @@ (7 :> 60)

EASY == "easy"
NORMAL == "normal"
HARD == "hard"

\* Python's None, for an unset difficulty and an unset timestamp.
None == "None"

\* The values of the enum Difficulty.
Difficulty == {EASY, NORMAL, HARD}

\* What update_word_progress accepts for its Optional[str] difficulty.
DifficultyArg == Difficulty \cup {None}

\* A timestamp column that is NULL.
NoTime == -1

\* ------------------------------------------------- update_word_progress

Min(a, b) == IF a <= b THEN a ELSE b

Max(a, b) == IF a >= b THEN a ELSE b

\* LEITNER_BOXES.get(new_box, 1)
BoxInterval(box) == IF box \in DOMAIN LEITNER_BOXES THEN LEITNER_BOXES[box] ELSE 1

\* Mutant: the box is not capped at 7.
NewBoxUncapped(box) == box + 1

\* Mutant: a correct answer moves the row up two boxes.
NewBoxSkipsOne(box) == Min(box + 2, MAX_BOX)

\* new_box = min(progress.leitner_box + 1, 7)
NewBox(box) == Min(box + 1, MAX_BOX)

\* int(days * 1.5): the product is exact in floating point, int() truncates.
TimesOneAndAHalf(days) == (3 * days) \div 2

\* int(days * 0.7): equal to floor(7*days/10) for every interval of LEITNER_BOXES.
TimesSevenTenths(days) == (7 * days) \div 10

\* Mutant: the easy factor is applied in box 7 too.
DaysUntilReviewEasyAtSeven(new_box, difficulty) ==
    IF difficulty = EASY
    THEN TimesOneAndAHalf(BoxInterval(new_box))
    ELSE IF difficulty = HARD
         THEN Max(1, TimesSevenTenths(BoxInterval(new_box)))
         ELSE BoxInterval(new_box)

\* Mutant: the factors of easy and hard are swapped.
DaysUntilReviewSwapped(new_box, difficulty) ==
    IF difficulty = HARD /\ new_box < MAX_BOX
    THEN TimesOneAndAHalf(BoxInterval(new_box))
    ELSE IF difficulty = EASY
         THEN Max(1, TimesSevenTenths(BoxInterval(new_box)))
         ELSE BoxInterval(new_box)

\* days_until_review of a correct answer that leads to new_box.
DaysUntilReview(new_box, difficulty) ==
    IF difficulty = EASY /\ new_box < MAX_BOX
    THEN TimesOneAndAHalf(BoxInterval(new_box))
    ELSE IF difficulty = HARD
         THEN Max(1, TimesSevenTenths(BoxInterval(new_box)))
         ELSE BoxInterval(new_box)

\* The row update_word_progress creates when the pair has none; updated_at is
\* not yet set on the new object.
NewProgress(day) ==
    [leitner_box |-> 1, next_review_date |-> day + 1,
     times_reviewed |-> 0, times_correct |-> 0, times_incorrect |-> 0,
     difficulty |-> None, last_reviewed_at |-> NoTime, updated_at |-> NoTime]

\* Mutant: an incorrect answer is not counted in times_incorrect.
UpdateStatisticsCorrectOnly(p, is_correct) ==
    [p EXCEPT !.times_reviewed = @ + 1,
              !.times_correct = IF is_correct THEN @ + 1 ELSE @]

\* The statistics part: times_reviewed += 1, times_correct or times_incorrect += 1.
UpdateStatistics(p, is_correct) ==
    [p EXCEPT !.times_reviewed = @ + 1,
              !.times_correct = IF is_correct THEN @ + 1 ELSE @,
              !.times_incorrect = IF is_correct THEN @ ELSE @ + 1]

\* if difficulty: progress.difficulty = difficulty
UpdateDifficulty(p, difficulty) ==
    IF difficulty # None THEN [p EXCEPT !.difficulty = difficulty] ELSE p

\* Mutant: the interval is that of the box the row leaves.
UpdateBoxOldInterval(p, is_correct, difficulty, day) ==
    IF is_correct
    THEN [p EXCEPT !.leitner_box = NewBox(p.leitner_box),
                   !.next_review_date =
                       day + DaysUntilReview(p.leitner_box, difficulty)]
    ELSE [p EXCEPT !.leitner_box = 1, !.next_review_date = day + 1]

\* Mutant: an incorrect answer moves the row down one box only.
UpdateBoxDemoteOne(p, is_correct, difficulty, day) ==
    IF is_correct
    THEN [p EXCEPT !.leitner_box = NewBox(p.leitner_box),
                   !.next_review_date =
                       day + DaysUntilReview(NewBox(p.leitner_box), difficulty)]
    ELSE [p EXCEPT !.leitner_box = Max(1, p.leitner_box - 1),
                   !.next_review_date = day + 1]

\* Mutant: an incorrect answer leaves the row due today.
UpdateBoxDueToday(p, is_correct, difficulty, day) ==
    IF is_correct
    THEN [p EXCEPT !.leitner_box = NewBox(p.leitner_box),
                   !.next_review_date =
                       day + DaysUntilReview(NewBox(p.leitner_box), difficulty)]
    ELSE [p EXCEPT !.leitner_box = 1, !.next_review_date = day]

\* The Leitner part: the box and the next review date.
UpdateBox(p, is_correct, difficulty, day) ==
    IF is_correct
    THEN [p EXCEPT !.leitner_box = NewBox(p.leitner_box),
                   !.next_review_date =
                       day + DaysUntilReview(NewBox(p.leitner_box), difficulty)]
    ELSE [p EXCEPT !.leitner_box = 1, !.next_review_date = day + 1]

\* The object as it is when update_word_progress reaches session.commit():
\* p is the loaded or the new row.
Modified(p, is_correct, difficulty, day) ==
    [UpdateBox(UpdateDifficulty(UpdateStatistics(p, is_correct), difficulty),
               is_correct, difficulty, day)
        EXCEPT !.last_reviewed_at = p.updated_at]

\* The row after the commit: the flush stamps updated_at.
Committed(p, is_correct, difficulty, day) ==
    [Modified(p, is_correct, difficulty, day) EXCEPT !.updated_at = day]

\* ------------------------------------------------------------------- state

VARIABLES
    today,            \* date.today(), a day number
    progress,         \* table user_word_progress: <<user_id, word_id>> -> row
    words,            \* table words: word id -> "active", "inactive" or "deleted"
    daily_word_limit, \* users.daily_word_limit, by user
    study_sessions,   \* table study_sessions: a sequence of rows, the id is the index
    user_data,        \* context.user_data, by user
    chat,             \* the inline keyboards shown in each user's chat, by message
    dup,              \* a second tap of a button, sent before the first was handled
    outcome,          \* what the last operation for a user answered
    txn,              \* the database sessions of concurrent update_word_progress calls
    returned          \* what the last call of a query function returned

dbVars == <<progress, words, daily_word_limit, study_sessions>>

botVars == <<user_data, chat, dup>>

vars == <<today, progress, words, daily_word_limit, study_sessions,
          user_data, chat, dup, outcome, txn, returned>>

\* The (user_id, word_id) pairs that have a row.
Pairs == DOMAIN progress

HasProgress(u, w) == <<u, w>> \in Pairs

\* The row update_word_progress works on: the one it selects, or a new one.
Loaded(u, w) == IF HasProgress(u, w) THEN progress[<<u, w>>] ELSE NewProgress(today)

\* The table with the row of (u, w) set to p (an INSERT or an UPDATE).
WithRow(table, u, w, p) ==
    [k \in (DOMAIN table) \cup {<<u, w>>} |-> IF k = <<u, w>> THEN p ELSE table[k]]

\* Mutant: a call that finds no row stores the new row as created, and leaves
\* the answer for the next call.
ProgressAfterUpdateCreatesOnly(u, w, is_correct, difficulty) ==
    IF HasProgress(u, w)
    THEN WithRow(progress, u, w, Committed(progress[<<u, w>>], is_correct, difficulty, today))
    ELSE WithRow(progress, u, w, [NewProgress(today) EXCEPT !.updated_at = today])

\* Mutant: the select leaves out the user, so the row of every user for the
\* word is updated along with the caller's.
ProgressAfterUpdateEveryUser(u, w, is_correct, difficulty) ==
    LET table == WithRow(progress, u, w, Committed(Loaded(u, w), is_correct, difficulty, today))
    IN [k \in DOMAIN table |->
          IF k[2] = w /\ k[1] # u
          THEN Committed(progress[k], is_correct, difficulty, today)
          ELSE table[k]]

\* Mutant: the commit leaves the row of (u, w) as the only row of the table.
ProgressAfterUpdateDropsOthers(u, w, is_correct, difficulty) ==
    [k \in {<<u, w>>} |-> Committed(Loaded(u, w), is_correct, difficulty, today)]

\* The table after a call of update_word_progress that commits.
ProgressAfterUpdate(u, w, is_correct, difficulty) ==
    WithRow(progress, u, w, Committed(Loaded(u, w), is_correct, difficulty, today))

\* The foreign keys of a new row: the word must still be in the table words.
CanStore(u, w) == HasProgress(u, w) \/ words[w] # "deleted"

\* All reviews recorded so far.
RECURSIVE SumReviewed(_, _)
SumReviewed(table, keys) ==
    IF keys = {} THEN 0
    ELSE LET k == CHOOSE x \in keys : TRUE
         IN table[k].times_reviewed + SumReviewed(table, keys \ {k})

TotalReviews == SumReviewed(progress, Pairs)

\* ----------------------------------------------------------- initial state

\* An empty table user_word_progress.
NoRows == [k \in {} |-> NewProgress(0)]

\* An empty context.user_data.
EmptyData == [k \in {} |-> 0]

\* The ids of the messages that carry an inline keyboard.
MsgIds == 1..1

\* A message that shows no inline keyboard.
NoKeyboard ==
    [kind |-> "none", word_id |-> 0, is_correct |-> FALSE, pos |-> 0,
     total |-> 0, is_new |-> FALSE, figures |-> <<>>]

NoDup == [msg |-> 0, data |-> <<>>]

\* The two database sessions of the concurrent calls.
Procs == {"a", "b"}

IdleTxn ==
    [pc |-> "idle", user_id |-> 0, word_id |-> 0, is_correct |-> FALSE,
     difficulty |-> None, found |-> FALSE, loaded |-> NewProgress(0),
     object |-> NewProgress(0)]

\* users.daily_word_limit: default=10.
DEFAULT_LIMIT == 10

BotIdle ==
    /\ user_data = [u \in Users |-> EmptyData]
    /\ chat = [u \in Users |-> [m \in MsgIds |-> NoKeyboard]]
    /\ dup = [u \in Users |-> NoDup]
    /\ outcome = [u \in Users |-> "none"]
    /\ study_sessions = <<>>
    /\ returned = <<>>

\* ------------------------------------------------------------- the clock

\* Midnight passes.
NextDay ==
    /\ today < MaxDay
    /\ today' = today + 1
    /\ UNCHANGED <<dbVars, botVars, outcome, txn, returned>>

\* ------------------------------------- update_word_progress, called alone

\* Where the database can raise in a call: "update", at the select or at the
\* commit, so that nothing is stored; "refresh", at the refresh that follows
\* the commit, so that the row is stored.
UpdateFaults == {"none", "update", "refresh"}

\* One call of update_word_progress(session, u, w, is_correct, difficulty) that
\* runs alone.  It commits and returns the row, or the database raises
\* (store_fails, or a foreign key that no longer holds) and it rolls back and
\* re-raises.
UpdateWordProgress(u, w, is_correct, difficulty, store_fails) ==
    /\ IF store_fails = "update" \/ ~CanStore(u, w)
       THEN /\ outcome' = [outcome EXCEPT ![u] = "update_raised"]
            /\ UNCHANGED progress
       ELSE /\ progress' = ProgressAfterUpdate(u, w, is_correct, difficulty)
            /\ outcome' = [outcome EXCEPT ![u] =
                              IF store_fails = "refresh" THEN "update_raised"
                              ELSE "updated"]
    /\ UNCHANGED <<today, words, daily_word_limit, study_sessions, botVars, txn, returned>>

\* The pair whose row the scheduler-only specification follows to MaxReviews.
LeitnerPairs == {<<1, 1>>}

\* The scheduler on its own: nothing stored yet, and any sequence of update
\* calls, one at a time, on any (learner, word) pair, on any day.
InitLeitner ==
    /\ today = 0
    /\ progress = NoRows
    /\ words = [w \in Words |-> "active"]
    /\ daily_word_limit = [u \in Users |-> DEFAULT_LIMIT]
    /\ txn = [p \in Procs |-> IdleTxn]
    /\ BotIdle

NextLeitner ==
    \/ \E k \in LeitnerPairs, is_correct \in BOOLEAN,
          difficulty \in DifficultyArg, store_fails \in UpdateFaults :
            /\ TotalReviews < MaxReviews
            /\ UpdateWordProgress(k[1], k[2], is_correct, difficulty, store_fails)
    \/ NextDay

SpecLeitner == InitLeitner /\ [][NextLeitner]_vars

\* ------------------------------ two rows of the same box, reviewed today

\* The row of a pair after k correct answers rated normal, all given on day 0.
RECURSIVE Promoted(_)
Promoted(k) ==
    Committed(IF k = 1 THEN NewProgress(0) ELSE Promoted(k - 1), TRUE, NORMAL, 0)

\* Two learners' rows for the same word.
ComparePairs == {<<1, 1>>, <<2, 1>>}

\* Both learners have answered the word correctly equally often (or never), on
\* day 0; on day 1 each reviews it once, with a rating of their own.
InitCompare ==
    /\ today = 1
    /\ \E k \in 0..MaxReviews :
          progress = IF k = 0 THEN NoRows
                     ELSE [c \in ComparePairs |-> Promoted(k)]
    /\ words = [w \in Words |-> "active"]
    /\ daily_word_limit = [u \in Users |-> DEFAULT_LIMIT]
    /\ txn = [p \in Procs |-> IdleTxn]
    /\ BotIdle

NextCompare ==
    \E k \in ComparePairs, is_correct \in BOOLEAN, difficulty \in Difficulty :
        /\ Loaded(k[1], k[2]).updated_at < today
        /\ UpdateWordProgress(k[1], k[2], is_correct, difficulty, "none")

SpecCompare == InitCompare /\ [][NextCompare]_vars

\* ------------------------------ update_word_progress, two calls at a time

\* Each call runs in a database session of its own (get_session), under the
\* database's default isolation, READ COMMITTED.  A call has two steps, split
\* where it awaits the database: the SELECT, after which it changes the loaded
\* (or new) object in memory, and the commit, which flushes the object as an
\* INSERT or an UPDATE.  No call locks the row it read.

\* The pair both calls are for.
ConcurrentPair == <<1, 1>>

\* The row an UPDATE leaves: the flush sets the columns whose value differs
\* from the loaded one, and updated_at (onupdate); the other columns keep what
\* the table holds by then.
Flushed(row, loaded, object, day) ==
    [c \in DOMAIN row |->
        IF c = "updated_at" THEN day
        ELSE IF object[c] # loaded[c] THEN object[c] ELSE row[c]]

\* The call selects the row and changes the object, up to session.commit().
BeginUpdate(p, is_correct, difficulty) ==
    LET u == ConcurrentPair[1]
        w == ConcurrentPair[2]
    IN /\ txn[p].pc = "idle"
       /\ txn' = [txn EXCEPT ![p] =
                     [pc |-> "commit", user_id |-> u, word_id |-> w,
                      is_correct |-> is_correct, difficulty |-> difficulty,
                      found |-> HasProgress(u, w), loaded |-> Loaded(u, w),
                      object |-> Modified(Loaded(u, w), is_correct, difficulty, today)]]
       /\ UNCHANGED <<today, dbVars, botVars, outcome, returned>>

\* session.commit(): the INSERT of a new object fails on uq_user_word when the
\* pair has a row by now, and the call rolls back and re-raises; an UPDATE
\* overwrites what the row holds by now.
CommitUpdate(p) ==
    LET u == txn[p].user_id
        w == txn[p].word_id
    IN /\ txn[p].pc = "commit"
       /\ IF ~txn[p].found
          THEN IF HasProgress(u, w)
               THEN /\ txn' = [txn EXCEPT ![p].pc = "raised"]
                    /\ UNCHANGED progress
               ELSE /\ progress' = WithRow(progress, u, w,
                                       [txn[p].object EXCEPT !.updated_at = today])
                    /\ txn' = [txn EXCEPT ![p].pc = "returned"]
          ELSE /\ progress' = WithRow(progress, u, w,
                                  Flushed(progress[<<u, w>>], txn[p].loaded,
                                          txn[p].object, today))
               /\ txn' = [txn EXCEPT ![p].pc = "returned"]
       /\ UNCHANGED <<today, words, daily_word_limit, study_sessions, botVars, outcome, returned>>

\* The pair has no row, or one that k correct answers of day 0 left; on day 1
\* two calls for the pair run, in any interleaving of their steps.
InitConcurrent ==
    /\ today = 1
    /\ \E k \in 0..MaxReviews :
          progress = IF k = 0 THEN NoRows
                     ELSE [c \in {ConcurrentPair} |-> Promoted(k)]
    /\ words = [w \in Words |-> "active"]
    /\ daily_word_limit = [u \in Users |-> DEFAULT_LIMIT]
    /\ txn = [p \in Procs |-> IdleTxn]
    /\ BotIdle

NextConcurrent ==
    \/ \E p \in Procs, is_correct \in BOOLEAN, difficulty \in Difficulty :
          BeginUpdate(p, is_correct, difficulty)
    \/ \E p \in Procs : CommitUpdate(p)

SpecConcurrent == InitConcurrent /\ [][NextConcurrent]_vars

\* ------------------------------------------------------ context.user_data

STUDY_SESSION_ID == "study_session_id"
WORDS_TO_REVIEW == "words_to_review"
NEW_WORDS == "new_words"
WORD_INDEX == "word_index"
CURRENT_WORD == "current_word"
LAST_ANSWER_CORRECT == "last_answer_correct"

\* get_session_value(context, key, default)
Get(d, key, default) == IF key \in DOMAIN d THEN d[key] ELSE default

\* set_session_value(context, key, value)
Put(d, key, value) ==
    [k \in (DOMAIN d) \cup {key} |-> IF k = key THEN value ELSE d[k]]

\* The queue of a session: the review segment, then the new segment.
Queue(d) == Get(d, WORDS_TO_REVIEW, <<>>) \o Get(d, NEW_WORDS, <<>>)

\* len(words_to_review) + len(new_words)
TotalWords(d) == Len(Queue(d))

\* ------------------------------------------------------------ the messages

\* What a message shows, as far as its inline keyboard and the text that goes
\* with it: the word prompt with the answer keyboard, the definition with the
\* difficulty keyboard of (word_id, is_correct), and the "moving to next word"
\* text with the continue keyboard.  The other texts have no keyboard: the
\* summary of a session, with its figures, and the rest, which is NoKeyboard.
Prompt(w, index, total, is_new) ==
    [kind |-> "answer", word_id |-> w, is_correct |-> FALSE, pos |-> index,
     total |-> total, is_new |-> is_new, figures |-> <<>>]

Definition(w, is_correct) ==
    [kind |-> "difficulty", word_id |-> w, is_correct |-> is_correct, pos |-> 0,
     total |-> 0, is_new |-> FALSE, figures |-> <<>>]

Moving ==
    [kind |-> "continue", word_id |-> 0, is_correct |-> FALSE, pos |-> 0,
     total |-> 0, is_new |-> FALSE, figures |-> <<>>]

\* The summary of end_learning_session: the words reviewed, correct and
\* incorrect and the new words of the StudySession, as the text gives them.
\* It has no inline keyboard.
Summary(row) ==
    [kind |-> "summary", word_id |-> 0, is_correct |-> FALSE, pos |-> 0,
     total |-> 0, is_new |-> FALSE,
     figures |-> <<row.words_reviewed, row.words_correct, row.words_incorrect,
                   row.new_words>>]

\* The daily reminder of send_daily_reminder, with the start learning keyboard.
Reminder ==
    [kind |-> "reminder", word_id |-> 0, is_correct |-> FALSE, pos |-> 0,
     total |-> 0, is_new |-> FALSE, figures |-> <<>>]

\* StartLearningCallback.encode, split at ":".
StartData == {<<"start", "now">>, <<"start", "later">>}

\* AnswerCallback.encode, split at ":".
AnswerData == {<<"answer", "correct">>, <<"answer", "incorrect">>}

\* DifficultyCallback.encode, split at ":".
EncodeDifficulty(difficulty, word_id, is_correct) ==
    <<"difficulty", difficulty, word_id, IF is_correct THEN "1" ELSE "0">>

\* NavigationCallback.encode, split at ":".
NavigationData == {<<"next", "word">>, <<"next", "stop">>}

\* The callback data of the buttons of a message.
Buttons(content) ==
    CASE content.kind = "answer" -> AnswerData
      [] content.kind = "difficulty" ->
            {EncodeDifficulty(d, content.word_id, content.is_correct) : d \in Difficulty}
      [] content.kind = "continue" -> NavigationData
      [] content.kind = "reminder" -> StartData
      [] OTHER -> {}

\* DifficultyCallback.decode: None unless the data has four parts, the first
\* "difficulty" and the second a Difficulty.
DecodeDifficulty(data) ==
    IF Len(data) # 4 \/ data[1] # "difficulty" \/ data[2] \notin Difficulty
    THEN [ok |-> FALSE, difficulty |-> None, word_id |-> 0, is_correct |-> FALSE]
    ELSE [ok |-> TRUE, difficulty |-> data[2], word_id |-> data[3],
          is_correct |-> (data[4] = "1")]

\* The keyboards of the chat, oldest first.
RECURSIVE Keyboards(_, _)
Keyboards(c, m) ==
    IF m \notin MsgIds THEN <<>>
    ELSE (IF Buttons(c[m]) = {} THEN <<>> ELSE <<c[m]>>) \o Keyboards(c, m + 1)

\* The chat after a new message with a keyboard: the user can still reach the
\* most recent keyboards, as many as there are MsgIds.
NewMessage(c, content) ==
    LET all == Keyboards(c, 1) \o <<content>>
        drop == Max(0, Len(all) - Cardinality(MsgIds))
    IN [m \in MsgIds |-> IF m + drop <= Len(all) THEN all[m + drop] ELSE NoKeyboard]

\* The chat after the handler showed content: by editing the message m of the
\* callback query, or, for a text or command update (m = 0), in a new message.
Post(c, m, content) ==
    IF m # 0 THEN [c EXCEPT ![m] = content]
    ELSE IF Buttons(content) = {} THEN c
         ELSE NewMessage(c, content)

\* Telegram refuses an edit that changes nothing ("message is not modified").
NotModified(c, m, content) == m # 0 /\ c[m] = content

\* ---------------------------------------------------------- the selection

\* All orders of the set S, as sequences.
Orders(S) ==
    {f \in [1..Cardinality(S) -> S] : \A i, j \in 1..Cardinality(S) : i # j => f[i] # f[j]}

Prefix(f, n) == SubSeq(f, 1, Min(n, Len(f)))

\* Mutant: the rows due tomorrow are selected too.
DueRowsUntilTomorrow(u) ==
    {k \in Pairs : k[1] = u /\ progress[k].next_review_date <= today + 1}

\* The rows of the user that are due: user_id == user_id and
\* next_review_date <= today.  A row is named by its key <<user_id, word_id>>.
DueRows(u) ==
    {k \in Pairs : k[1] = u /\ progress[k].next_review_date <= today}

\* The sequences in which the database can return the due rows under
\* order_by(leitner_box.asc()): the order among rows of one box is its own.
ByBox(u) ==
    {g \in Orders(DueRows(u)) :
        \A i, j \in 1..Len(g) :
            i < j => progress[g[i]].leitner_box <= progress[g[j]].leitner_box}

\* Mutant: the rows come in the order of their due dates.
GetWordsForReviewByDueDate(u, limit) ==
    {Prefix(g, limit) :
        g \in {h \in Orders(DueRows(u)) :
                 \A i, j \in 1..Len(h) :
                    i < j => progress[h[i]].next_review_date
                                <= progress[h[j]].next_review_date}}

\* Mutant: the rows of every user, whether due or not.
GetWordsForReviewUnfiltered(u, limit) ==
    {Prefix(g, limit) :
        g \in {h \in Orders(Pairs) :
                 \A i, j \in 1..Len(h) :
                    i < j => progress[h[i]].leitner_box <= progress[h[j]].leitner_box}}

\* get_words_for_review: the due rows by box, the first `limit` of them.
GetWordsForReview(u, limit) == {Prefix(g, limit) : g \in ByBox(u)}

\* [w.word_id for w in words_to_review]
WordIds(rows) == [i \in 1..Len(rows) |-> rows[i][2]]

\* The words with a row of the user that is due.
DueWords(u) == {k[2] : k \in DueRows(u)}

\* The active words without a row of the user: the outer join on word_id and
\* user_id finds no row, and is_active is true.
UnseenWords(u) == {w \in DOMAIN words : words[w] = "active" /\ ~HasProgress(u, w)}

\* Mutant: the join leaves out the user, so a row of anyone hides the word.
GetNewWordsSeenByNobody(u, limit) ==
    {Prefix(f, limit) :
        f \in Orders({w \in DOMAIN words :
                        words[w] = "active" /\ \A v \in Users : ~HasProgress(v, w)})}

\* Mutant: every active word, whether the user has a row for it or not.
GetNewWordsAnyActive(u, limit) ==
    {Prefix(f, limit) : f \in Orders({w \in DOMAIN words : words[w] = "active"})}

\* get_new_words: `limit` of them, in the database's order.  The word ids.
GetNewWords(u, limit) == {Prefix(f, limit) : f \in Orders(UnseenWords(u))}

\* ------------------------------------------------------------ the handlers

\* A handler's result: the user's user_data, the table study_sessions, the
\* user's chat and the kind of the answer.
Result(d, ss, c, out) == [ud |-> d, ss |-> ss, chat |-> c, out |-> out]

\* StudySession(user_id=user_id)
NewStudySession(u) ==
    [user_id |-> u, ended_at |-> NoTime, words_reviewed |-> 0,
     words_correct |-> 0, words_incorrect |-> 0, new_words |-> 0]

\* Mutant: the summary is shown and user_data is kept.
EndLearningSessionKeepsData(d, ss, c, m, fault) ==
    LET sid == Get(d, STUDY_SESSION_ID, 0)
    IN IF sid = 0
       THEN Result(EmptyData, ss, Post(c, m, NoKeyboard), "session_ended")
       ELSE IF fault = "end"
            THEN Result(EmptyData, ss, Post(c, m, NoKeyboard), "summary_error")
            ELSE Result(d, [ss EXCEPT ![sid].ended_at = today],
                        Post(c, m, Summary(ss[sid])), "summary")

\* end_learning_session: stamps ended_at, clears user_data, shows the summary.
\* fault = "end": the database raises, and the summary says so.
EndLearningSession(d, ss, c, m, fault) ==
    LET sid == Get(d, STUDY_SESSION_ID, 0)
    IN IF sid = 0
       THEN Result(EmptyData, ss, Post(c, m, NoKeyboard), "session_ended")
       ELSE IF fault = "end"
            THEN Result(EmptyData, ss, Post(c, m, NoKeyboard), "summary_error")
            ELSE Result(EmptyData, [ss EXCEPT ![sid].ended_at = today],
                        Post(c, m, Summary(ss[sid])), "summary")

\* The first index from `index` on whose word is still in the table words, or
\* the length of the queue.
RECURSIVE FirstFound(_, _)
FirstFound(queue, index) ==
    IF index >= Len(queue) THEN Len(queue)
    ELSE IF words[queue[index + 1]] # "deleted" THEN index
         ELSE FirstFound(queue, index + 1)

\* Mutant: presenting a word moves the index on.
ShowNextWordAdvances(d, ss, c, m, fault) ==
    LET index == Get(d, WORD_INDEX, 0)
        found == FirstFound(Queue(d), index)
        skipped == IF found > index THEN Put(d, WORD_INDEX, found) ELSE d
    IN IF index >= TotalWords(d) THEN EndLearningSession(d, ss, c, m, fault)
       ELSE IF fault = "show" THEN Result(d, ss, c, "error_generic")
       ELSE IF found >= TotalWords(d) THEN EndLearningSession(skipped, ss, c, m, fault)
       ELSE LET w == Queue(d)[found + 1]
                shown == Put(Put(skipped, WORD_INDEX, found + 1), CURRENT_WORD, w)
                prompt == Prompt(w, found, TotalWords(d),
                                 found >= Len(Get(d, WORDS_TO_REVIEW, <<>>)))
            IN IF NotModified(c, m, prompt)
               THEN Result(shown, ss, c, "error_generic")
               ELSE Result(shown, ss, Post(c, m, prompt), "prompt")

\* show_next_word: ends the session when the index is past the queue, skips
\* the words that are gone, stores the current word and shows its prompt.
\* fault = "show": the database raises at the first lookup.  An error is
\* answered in a new message, and the message of the callback query stays.
ShowNextWord(d, ss, c, m, fault) ==
    LET index == Get(d, WORD_INDEX, 0)
        found == FirstFound(Queue(d), index)
        skipped == IF found > index THEN Put(d, WORD_INDEX, found) ELSE d
    IN IF index >= TotalWords(d) THEN EndLearningSession(d, ss, c, m, fault)
       ELSE IF fault = "show" THEN Result(d, ss, c, "error_generic")
       ELSE IF found >= TotalWords(d) THEN EndLearningSession(skipped, ss, c, m, fault)
       ELSE LET w == Queue(d)[found + 1]
                shown == Put(skipped, CURRENT_WORD, w)
                prompt == Prompt(w, found, TotalWords(d),
                                 found >= Len(Get(d, WORDS_TO_REVIEW, <<>>)))
            IN IF NotModified(c, m, prompt)
               THEN Result(shown, ss, c, "error_generic")
               ELSE Result(shown, ss, Post(c, m, prompt), "prompt")

\* What a handler leaves behind for the user u.
Apply(u, r) ==
    /\ user_data' = [user_data EXCEPT ![u] = r.ud]
    /\ study_sessions' = r.ss
    /\ chat' = [chat EXCEPT ![u] = r.chat]
    /\ outcome' = [outcome EXCEPT ![u] = r.out]

\* A callback query reaches its handler: the user taps a button that the
\* message m shows.  A tap may arrive twice (the keyboard is still on the
\* screen until the edit arrives); the second one is handled next for that
\* user, whatever the message shows by then.  The handlers of the application
\* run one update at a time.
Tap(u, m, data, delivery) ==
    IF delivery = "again"
    THEN /\ dup[u] = [msg |-> m, data |-> data]
         /\ dup' = [dup EXCEPT ![u] = NoDup]
    ELSE /\ dup[u] = NoDup
         /\ data \in Buttons(chat[u][m])
         /\ dup' = [dup EXCEPT ![u] =
                       IF delivery = "twice" THEN [msg |-> m, data |-> data] ELSE NoDup]

Deliveries == {"once", "twice", "again"}

\* The faults of start_learning.  "review": the query of get_words_for_review
\* raises, and nothing else; "new": the query of get_new_words raises, and
\* nothing else; "aborted": the query of get_words_for_review raises and leaves
\* the transaction aborted, so that the query of get_new_words raises too;
\* "new_aborted": the query of get_new_words raises and leaves the transaction
\* aborted, so that storing the StudySession raises; "commit": storing the
\* StudySession raises; "show": the lookup of show_next_word raises.
StartFaults == {"none", "review", "new", "aborted", "new_aborted", "commit", "show"}

ReviewFails(fault) == fault \in {"review", "aborted"}

NewFails(fault) == fault \in {"new", "aborted", "new_aborted"}

CommitFails(fault) == fault \in {"commit", "new_aborted"}

\* Mutant: get_new_words is asked for the whole daily limit.
NewSegmentsWholeLimit(u, review, fault) ==
    IF daily_word_limit[u] - Len(review) > 0 /\ ~NewFails(fault)
    THEN GetNewWords(u, daily_word_limit[u])
    ELSE {<<>>}

\* The new segment that goes with a review segment.
NewSegments(u, review, fault) ==
    IF daily_word_limit[u] - Len(review) > 0 /\ ~NewFails(fault)
    THEN GetNewWords(u, daily_word_limit[u] - Len(review))
    ELSE {<<>>}

\* Mutant: the StudySession is stored before the segments are looked at.
StartLearningStoresFirst(u, fault) ==
    /\ dup[u] = NoDup
    /\ \E review \in (IF ReviewFails(fault) THEN {<<>>}
                      ELSE {WordIds(rows) :
                              rows \in GetWordsForReview(u, daily_word_limit[u])}) :
         \E new \in NewSegments(u, review, fault) :
            IF CommitFails(fault)
            THEN Apply(u, Result(user_data[u], study_sessions, chat[u], "error_generic"))
            ELSE LET ss == Append(study_sessions, NewStudySession(u))
                     d == Put(Put(Put(Put(user_data[u],
                                STUDY_SESSION_ID, Len(ss)),
                                WORDS_TO_REVIEW, review),
                                NEW_WORDS, new),
                                WORD_INDEX, 0)
                 IN IF review = <<>> /\ new = <<>>
                    THEN Apply(u, Result(user_data[u], ss, chat[u], "no_words"))
                    ELSE Apply(u, ShowNextWord(d, ss, chat[u], 0, fault))
    /\ UNCHANGED <<today, progress, words, daily_word_limit, dup, txn, returned>>

\* start_learning, from /learn or the "Start Learning" button of the menu: a
\* text update, so every answer is a new message.  fault = "commit": the
\* database raises when the StudySession is stored.
StartLearning(u, fault) ==
    /\ dup[u] = NoDup
    /\ \E review \in (IF ReviewFails(fault) THEN {<<>>}
                      ELSE {WordIds(rows) :
                              rows \in GetWordsForReview(u, daily_word_limit[u])}) :
         \E new \in NewSegments(u, review, fault) :
            IF review = <<>> /\ new = <<>>
            THEN Apply(u, Result(user_data[u], study_sessions, chat[u], "no_words"))
            ELSE IF CommitFails(fault)
            THEN Apply(u, Result(user_data[u], study_sessions, chat[u], "error_generic"))
            ELSE LET ss == Append(study_sessions, NewStudySession(u))
                     d == Put(Put(Put(Put(user_data[u],
                                STUDY_SESSION_ID, Len(ss)),
                                WORDS_TO_REVIEW, review),
                                NEW_WORDS, new),
                                WORD_INDEX, 0)
                 IN Apply(u, ShowNextWord(d, ss, chat[u], 0, fault))
    /\ UNCHANGED <<today, progress, words, daily_word_limit, dup, txn, returned>>

\* start_learning, from a button of the reminder: every callback query whose
\* data matches ^start:(now|later)$ is routed to it, and it does not read the
\* data.  Its texts are new messages; show_next_word edits the message of the
\* callback query.
StartLearningFromReminder(u, m, data, fault) ==
    /\ Tap(u, m, data, "once")
    /\ data \in StartData
    /\ \E review \in (IF ReviewFails(fault) THEN {<<>>}
                      ELSE {WordIds(rows) :
                              rows \in GetWordsForReview(u, daily_word_limit[u])}) :
         \E new \in NewSegments(u, review, fault) :
            IF review = <<>> /\ new = <<>>
            THEN Apply(u, Result(user_data[u], study_sessions, chat[u], "no_words"))
            ELSE IF CommitFails(fault)
            THEN Apply(u, Result(user_data[u], study_sessions, chat[u], "error_generic"))
            ELSE LET ss == Append(study_sessions, NewStudySession(u))
                     d == Put(Put(Put(Put(user_data[u],
                                STUDY_SESSION_ID, Len(ss)),
                                WORDS_TO_REVIEW, review),
                                NEW_WORDS, new),
                                WORD_INDEX, 0)
                 IN Apply(u, ShowNextWord(d, ss, chat[u], m, fault))
    /\ UNCHANGED <<today, progress, words, daily_word_limit, txn, returned>>

\* send_daily_reminder: every user with reminders enabled, which is the
\* default, gets the reminder in a new message.
SendDailyReminder ==
    /\ chat' = [u \in Users |-> NewMessage(chat[u], Reminder)]
    /\ UNCHANGED <<today, dbVars, user_data, dup, outcome, txn, returned>>

\* Mutant: the answer is stored as soon as the correctness is known.
HandleAnswerStoresAnswer(u, m, data, delivery, fault) ==
    LET d == user_data[u]
        word_id == Get(d, CURRENT_WORD, 0)
        is_correct == (data = <<"answer", "correct">>)
        definition == Definition(word_id, is_correct)
        expired == Result(d, study_sessions, Post(chat[u], m, NoKeyboard), "session_expired")
        failed == Result(d, study_sessions, Post(chat[u], m, NoKeyboard), "error_generic")
        gone == Result(d, study_sessions, Post(chat[u], m, NoKeyboard), "word_not_found")
        shown == Result(Put(d, LAST_ANSWER_CORRECT, is_correct), study_sessions,
                        Post(chat[u], m, definition), "definition")
    IN /\ Tap(u, m, data, delivery)
       /\ IF word_id = 0 THEN Apply(u, expired)
          ELSE IF fault = "answer" THEN Apply(u, failed)
          ELSE IF words[word_id] = "deleted" THEN Apply(u, gone)
          ELSE IF NotModified(chat[u], m, definition) THEN Apply(u, failed)
          ELSE Apply(u, shown)
       /\ progress' = IF word_id # 0 /\ CanStore(u, word_id)
                      THEN ProgressAfterUpdate(u, word_id, is_correct, None)
                      ELSE progress
       /\ UNCHANGED <<today, words, daily_word_limit, txn, returned>>

\* handle_answer: the "I know" / "I don't know" buttons.  It shows the
\* definition with the difficulty keyboard of the current word.
\* fault = "answer": the database raises at the lookup.
HandleAnswer(u, m, data, delivery, fault) ==
    LET d == user_data[u]
        word_id == Get(d, CURRENT_WORD, 0)
        is_correct == (data = <<"answer", "correct">>)
        definition == Definition(word_id, is_correct)
        expired == Result(d, study_sessions, Post(chat[u], m, NoKeyboard), "session_expired")
        failed == Result(d, study_sessions, Post(chat[u], m, NoKeyboard), "error_generic")
        gone == Result(d, study_sessions, Post(chat[u], m, NoKeyboard), "word_not_found")
        shown == Result(Put(d, LAST_ANSWER_CORRECT, is_correct), study_sessions,
                        Post(chat[u], m, definition), "definition")
    IN /\ Tap(u, m, data, delivery)
       /\ IF word_id = 0 THEN Apply(u, expired)
          ELSE IF fault = "answer" THEN Apply(u, failed)
          ELSE IF words[word_id] = "deleted" THEN Apply(u, gone)
          ELSE IF NotModified(chat[u], m, definition) THEN Apply(u, failed)
          ELSE Apply(u, shown)
       /\ UNCHANGED <<today, progress, words, daily_word_limit, txn, returned>>

\* study_session.words_reviewed += 1, and the rest of the statistics.
ReviewCounted(row, is_correct, is_new) ==
    [row EXCEPT !.words_reviewed = @ + 1,
                !.words_correct = IF is_correct THEN @ + 1 ELSE @,
                !.words_incorrect = IF is_correct THEN @ ELSE @ + 1,
                !.new_words = IF is_new THEN @ + 1 ELSE @]

\* Mutant: the index moves on although the store write failed.
HandleDifficultyAdvancesOnFailure(u, m, data, delivery, fault) ==
    LET callback == DecodeDifficulty(data)
        d == user_data[u]
        session_id == Get(d, STUDY_SESSION_ID, 0)
        word_index == Get(d, WORD_INDEX, 0)
        is_new == word_index >= Len(Get(d, WORDS_TO_REVIEW, <<>>))
        counted == IF session_id # 0
                   THEN [study_sessions EXCEPT
                            ![session_id] = ReviewCounted(@, callback.is_correct, is_new)]
                   ELSE study_sessions
        expired == Result(d, study_sessions, Post(chat[u], m, NoKeyboard), "session_expired")
        advanced == Put(d, WORD_INDEX, word_index + 1)
        failed == Result(advanced, study_sessions, Post(chat[u], m, NoKeyboard),
                         "error_generic")
    IN /\ Tap(u, m, data, delivery)
       /\ IF ~callback.ok
          THEN Apply(u, expired) /\ UNCHANGED progress
          ELSE IF fault = "update" \/ ~CanStore(u, callback.word_id)
          THEN Apply(u, failed) /\ UNCHANGED progress
          ELSE /\ progress' = ProgressAfterUpdate(u, callback.word_id,
                                                  callback.is_correct, callback.difficulty)
               /\ IF fault = "refresh" \/ (session_id # 0 /\ fault = "stats")
                  THEN Apply(u, failed)
                  ELSE IF NotModified(chat[u], m, Moving)
                  THEN Apply(u, Result(advanced, counted,
                                       Post(chat[u], m, NoKeyboard), "error_generic"))
                  ELSE Apply(u, Result(advanced, counted,
                                       Post(chat[u], m, Moving), "moving"))
       /\ UNCHANGED <<today, words, daily_word_limit, txn, returned>>

\* handle_difficulty: the Easy / Normal / Hard buttons.  The word, the answer
\* and the rating are those of the callback data.  It calls
\* update_word_progress, counts the review in the StudySession of user_data if
\* there is one, and moves the index on.  fault = "update": the database raises
\* inside update_word_progress before anything is stored; fault = "refresh":
\* it raises there after the commit; fault = "stats": it raises when the
\* statistics are committed, after update_word_progress has returned.
HandleDifficulty(u, m, data, delivery, fault) ==
    LET callback == DecodeDifficulty(data)
        d == user_data[u]
        session_id == Get(d, STUDY_SESSION_ID, 0)
        word_index == Get(d, WORD_INDEX, 0)
        is_new == word_index >= Len(Get(d, WORDS_TO_REVIEW, <<>>))
        counted == IF session_id # 0
                   THEN [study_sessions EXCEPT
                            ![session_id] = ReviewCounted(@, callback.is_correct, is_new)]
                   ELSE study_sessions
        expired == Result(d, study_sessions, Post(chat[u], m, NoKeyboard), "session_expired")
        failed == Result(d, study_sessions, Post(chat[u], m, NoKeyboard), "error_generic")
        advanced == Put(d, WORD_INDEX, word_index + 1)
    IN /\ Tap(u, m, data, delivery)
       /\ IF ~callback.ok
          THEN Apply(u, expired) /\ UNCHANGED progress
          ELSE IF fault = "update" \/ ~CanStore(u, callback.word_id)
          THEN Apply(u, failed) /\ UNCHANGED progress
          ELSE /\ progress' = ProgressAfterUpdate(u, callback.word_id,
                                                  callback.is_correct, callback.difficulty)
               /\ IF fault = "refresh" \/ (session_id # 0 /\ fault = "stats")
                  THEN Apply(u, failed)
                  ELSE IF NotModified(chat[u], m, Moving)
                  THEN Apply(u, Result(advanced, counted,
                                       Post(chat[u], m, NoKeyboard), "error_generic"))
                  ELSE Apply(u, Result(advanced, counted,
                                       Post(chat[u], m, Moving), "moving"))
       /\ UNCHANGED <<today, words, daily_word_limit, txn, returned>>

\* handle_next_word: the "Next Word" / "Stop Learning" buttons.
HandleNextWord(u, m, data, delivery, fault) ==
    /\ Tap(u, m, data, delivery)
    /\ IF data = <<"next", "word">>
       THEN Apply(u, ShowNextWord(user_data[u], study_sessions, chat[u], m, fault))
       ELSE Apply(u, EndLearningSession(user_data[u], study_sessions, chat[u], m, fault))
    /\ UNCHANGED <<today, progress, words, daily_word_limit, txn, returned>>

\* cancel_command (/cancel): clears user_data and answers in a new message.
CancelCommand(u) ==
    /\ dup[u] = NoDup
    /\ Apply(u, Result(EmptyData, study_sessions, chat[u], "cancelled"))
    /\ UNCHANGED <<today, progress, words, daily_word_limit, dup, txn, returned>>

\* ------------------------------------------------------------------ the bot

\* The learner whose chat the specification follows.
Learners == {1}

MaxSessions == 2

MaxAnswers == 3

AnswerFaults == {"none", "answer"}

DifficultyFaults == {"none", "update", "refresh", "stats"}

NavigationFaults == {"none", "show", "end"}

DifficultyData ==
    {EncodeDifficulty(d, w, c) : d \in Difficulty, w \in Words, c \in BOOLEAN}

\* The row of a word that was answered "I don't know" on its first review,
\* on day 0: box 1, due on day 1.
Missed == Committed(NewProgress(0), FALSE, NORMAL, 0)

\* The bot on day 1, idle, with the vocabulary loaded and the learners
\* registered: the learner has missed word 1 the day before, so that it is
\* due, and has not seen the other words.
Init ==
    /\ today = 1
    /\ progress = WithRow(NoRows, 1, 1, Missed)
    /\ words = [w \in Words |-> "active"]
    /\ daily_word_limit = [u \in Users |-> DEFAULT_LIMIT]
    /\ txn = [p \in Procs |-> IdleTxn]
    /\ BotIdle

\* The learner's updates, one at a time: /learn, and taps on the keyboards.
Next ==
    \/ \E u \in Learners, fault \in StartFaults :
          /\ Len(study_sessions) < MaxSessions
          /\ StartLearning(u, fault)
    \/ \E u \in Learners, m \in MsgIds, data \in AnswerData,
          delivery \in Deliveries, fault \in AnswerFaults :
            HandleAnswer(u, m, data, delivery, fault)
    \/ \E u \in Learners, m \in MsgIds, data \in DifficultyData,
          delivery \in Deliveries, fault \in DifficultyFaults :
            /\ TotalReviews < MaxAnswers
            /\ HandleDifficulty(u, m, data, delivery, fault)
    \/ \E u \in Learners, m \in MsgIds, data \in NavigationData,
          delivery \in Deliveries, fault \in NavigationFaults :
            HandleNextWord(u, m, data, delivery, fault)
    \/ \E u \in Learners : CancelCommand(u)

Spec == Init /\ [][Next]_vars

\* ------------------------------------------- the bot, the catalog changing

\* Someone with access to the database deletes a word: its rows of
\* user_word_progress go with it (cascade="all, delete-orphan").
DeleteWord(w) ==
    /\ words[w] # "deleted"
    /\ words' = [words EXCEPT ![w] = "deleted"]
    /\ progress' = [k \in {x \in Pairs : x[2] # w} |-> progress[k]]
    /\ UNCHANGED <<today, daily_word_limit, study_sessions, botVars, outcome, txn,
                   returned>>

\* Someone with access to the database sets is_active of a word to false.
DeactivateWord(w) ==
    /\ words[w] = "active"
    /\ words' = [words EXCEPT ![w] = "inactive"]
    /\ UNCHANGED <<today, progress, daily_word_limit, study_sessions, botVars,
                   outcome, txn, returned>>

\* The learner's updates, each delivered once and with the database up, while
\* words are deleted and deactivated.
NextCatalog ==
    \/ \E u \in Learners :
          /\ Len(study_sessions) < MaxSessions
          /\ StartLearning(u, "none")
    \/ \E u \in Learners, m \in MsgIds, data \in AnswerData :
          HandleAnswer(u, m, data, "once", "none")
    \/ \E u \in Learners, m \in MsgIds, data \in DifficultyData :
          /\ TotalReviews < MaxAnswers
          /\ HandleDifficulty(u, m, data, "once", "none")
    \/ \E u \in Learners, m \in MsgIds, data \in NavigationData :
          HandleNextWord(u, m, data, "once", "none")
    \/ \E w \in Words : DeleteWord(w)
    \/ \E w \in Words : DeactivateWord(w)

SpecCatalog == Init /\ [][NextCatalog]_vars

\* ------------------------------------------------- the bot, input checked

\* The texts a learner sends when asked for the daily limit.
LimitTexts == {"0", "1", " 7 ", "100", "101", "ten"}

\* int(text.strip()), for the texts it accepts; it raises ValueError for the
\* others.
Numeral ==
    [text \in {"0", "1", " 7 ", "100", "101"} |->
        CASE text = "0" -> 0
          [] text = "1" -> 1
          [] text = " 7 " -> 7
          [] text = "100" -> 100
          [] text = "101" -> 101]

IsInt(text) == text \in DOMAIN Numeral

\* Mutant: the range check lets 0 through.
SetWordLimitAcceptsZero(u, text, fault) ==
    /\ dup[u] = NoDup
    /\ IF ~IsInt(text)
       THEN /\ outcome' = [outcome EXCEPT ![u] = "invalid_number"]
            /\ UNCHANGED daily_word_limit
       ELSE IF Numeral[text] < 0 \/ Numeral[text] > 100
       THEN /\ outcome' = [outcome EXCEPT ![u] = "number_range"]
            /\ UNCHANGED daily_word_limit
       ELSE IF fault = "update"
       THEN /\ outcome' = [outcome EXCEPT ![u] = "error_generic"]
            /\ UNCHANGED daily_word_limit
       ELSE /\ daily_word_limit' = [daily_word_limit EXCEPT ![u] = Numeral[text]]
            /\ outcome' = [outcome EXCEPT ![u] =
                              IF fault = "refresh" THEN "error_generic" ELSE "limit_set"]
    /\ UNCHANGED <<today, progress, words, study_sessions, botVars, txn, returned>>

\* set_word_limit: the text the learner sends after "Daily Word Limit" of the
\* settings (or after the first /start).  A text that is no integer, or an
\* integer outside 1..100, is answered with an error and the question stays
\* open; otherwise update_user_settings stores the limit.  fault = "update":
\* the database raises before the commit; "refresh": after it.
SetWordLimit(u, text, fault) ==
    /\ dup[u] = NoDup
    /\ IF ~IsInt(text)
       THEN /\ outcome' = [outcome EXCEPT ![u] = "invalid_number"]
            /\ UNCHANGED daily_word_limit
       ELSE IF Numeral[text] < 1 \/ Numeral[text] > 100
       THEN /\ outcome' = [outcome EXCEPT ![u] = "number_range"]
            /\ UNCHANGED daily_word_limit
       ELSE IF fault = "update"
       THEN /\ outcome' = [outcome EXCEPT ![u] = "error_generic"]
            /\ UNCHANGED daily_word_limit
       ELSE /\ daily_word_limit' = [daily_word_limit EXCEPT ![u] = Numeral[text]]
            /\ outcome' = [outcome EXCEPT ![u] =
                              IF fault = "refresh" THEN "error_generic" ELSE "limit_set"]
    /\ UNCHANGED <<today, progress, words, study_sessions, botVars, txn, returned>>

\* DifficultyCallback.pattern(), on the data split at ":" (the word id is
\* digits in all the data here).
MatchesDifficulty(data) ==
    /\ Len(data) = 4
    /\ data[1] = "difficulty"
    /\ data[2] \in Difficulty
    /\ data[4] \in {"0", "1"}

\* Callback data that no button of the bot carries: a difficulty that is none
\* of easy, normal and hard.
ForgedData ==
    {<<"difficulty", "medium", w, c>> : w \in Words, c \in {"0", "1"}}

\* A callback query whose data matches the pattern of no CallbackQueryHandler:
\* the application runs no handler for it.
UnmatchedCallback(u, data) ==
    /\ dup[u] = NoDup
    /\ ~MatchesDifficulty(data)
    /\ data \notin AnswerData \cup NavigationData
    /\ outcome' = [outcome EXCEPT ![u] = "unhandled"]
    /\ UNCHANGED <<today, dbVars, botVars, txn, returned>>

\* The learner's updates, each delivered once: the session, the daily limit,
\* and callback queries with data of the learner's own making.
NextValidate ==
    \/ \E u \in Learners :
          /\ Len(study_sessions) < MaxSessions
          /\ StartLearning(u, "none")
    \/ \E u \in Learners, m \in MsgIds, data \in AnswerData :
          HandleAnswer(u, m, data, "once", "none")
    \/ \E u \in Learners, m \in MsgIds, data \in DifficultyData :
          /\ TotalReviews < MaxAnswers
          /\ HandleDifficulty(u, m, data, "once", "none")
    \/ \E u \in Learners, m \in MsgIds, data \in NavigationData :
          HandleNextWord(u, m, data, "once", "none")
    \/ \E u \in Learners, text \in LimitTexts, fault \in UpdateFaults :
          SetWordLimit(u, text, fault)
    \/ \E u \in Learners, data \in ForgedData \cup DifficultyData :
          UnmatchedCallback(u, data)

SpecValidate == Init /\ [][NextValidate]_vars

\* ------------------------------------------- the bot, the learner answering

\* One session of the learner, who taps a button whenever the bot shows one
\* and sends no command after /learn; the store works.  A tap may be
\* delivered twice.
NextAnswering ==
    \/ \E u \in Learners :
          /\ study_sessions = <<>>
          /\ StartLearning(u, "none")
    \/ \E u \in Learners, m \in MsgIds, data \in AnswerData, delivery \in Deliveries :
          HandleAnswer(u, m, data, delivery, "none")
    \/ \E u \in Learners, m \in MsgIds, data \in DifficultyData, delivery \in Deliveries :
          HandleDifficulty(u, m, data, delivery, "none")
    \/ \E u \in Learners, m \in MsgIds, data \in NavigationData, delivery \in Deliveries :
          HandleNextWord(u, m, data, delivery, "none")

\* The bot handles every update it receives, and the learner leaves no button
\* untapped for ever.
SpecAnswering == Init /\ [][NextAnswering]_vars /\ WF_vars(NextAnswering)

\* ------------------------------------------------ the bot, with the reminder

\* The bot on a day on which the reminder job runs: the learner taps a button
\* of the reminder, and goes through the session that follows, each tap
\* delivered once and the store working after the begin.
NextReminder ==
    \/ SendDailyReminder
    \/ \E u \in Learners, m \in MsgIds, data \in StartData, fault \in StartFaults :
          /\ Len(study_sessions) < MaxSessions
          /\ StartLearningFromReminder(u, m, data, fault)
    \/ \E u \in Learners, m \in MsgIds, data \in AnswerData :
          HandleAnswer(u, m, data, "once", "none")
    \/ \E u \in Learners, m \in MsgIds, data \in DifficultyData :
          /\ TotalReviews < MaxAnswers
          /\ HandleDifficulty(u, m, data, "once", "none")
    \/ \E u \in Learners, m \in MsgIds, data \in NavigationData :
          HandleNextWord(u, m, data, "once", "none")

SpecReminder == Init /\ [][NextReminder]_vars

\* ------------------------------------------------ the bot, with two learners

\* The reviews stored in the two learners' sessions, the initial one included.
MaxSharedReviews == 3

\* Both learners use the bot on day 1, their updates handled one at a time in
\* any order: learner 1 has missed word 1, learner 2 has seen no word.  The
\* store fails in the update of a rating or not at all.
NextShared ==
    \/ \E u \in Users :
          /\ Len(study_sessions) < MaxSessions
          /\ StartLearning(u, "none")
    \/ \E u \in Users, m \in MsgIds, data \in AnswerData :
          HandleAnswer(u, m, data, "once", "none")
    \/ \E u \in Users, m \in MsgIds, data \in DifficultyData,
          fault \in {"none", "update"} :
            /\ TotalReviews < MaxSharedReviews
            /\ HandleDifficulty(u, m, data, "once", fault)
    \/ \E u \in Users, m \in MsgIds, data \in NavigationData :
          HandleNextWord(u, m, data, "once", "none")

SpecShared == Init /\ [][NextShared]_vars

\* ------------------------------------------ get_words_for_review, on its own

\* The vocabulary of the selection's specification.
SelectWords == {1, 2, 3}

\* The limits the selection is called with: users.daily_word_limit is 1..100.
Limits == {1, 2, DEFAULT_LIMIT}

\* The rows a pair can have on day 4: a first answer, incorrect, on day 3 or 4
\* (box 1, due on day 4 or 5); a first answer, correct, on day 2 or 3 (box 2,
\* due on day 4 or 5); two correct answers on day 0 (box 3, due on day 4).
RowChoices ==
    {Committed(NewProgress(d), FALSE, NORMAL, d) : d \in {3, 4}}
        \cup {Committed(NewProgress(d), TRUE, NORMAL, d) : d \in {2, 3}}
        \cup {Promoted(2)}

\* Day 4: learner 1 has any of the rows above for any of the words, learner 2
\* has a due row for word 1 or none.
InitSelect ==
    /\ today = 4
    /\ \E S \in SUBSET SelectWords, other \in BOOLEAN :
         \E rows \in [S -> RowChoices] :
            progress = [k \in {<<1, w>> : w \in S}
                                \cup (IF other THEN {<<2, 1>>} ELSE {}) |->
                           IF k[1] = 1 THEN rows[k[2]]
                           ELSE Committed(NewProgress(3), FALSE, NORMAL, 3)]
    /\ words = [w \in SelectWords |-> "active"]
    /\ daily_word_limit = [u \in Users |-> DEFAULT_LIMIT]
    /\ txn = [p \in Procs |-> IdleTxn]
    /\ BotIdle

\* One call of get_words_for_review(session, u, limit).  A query that raises
\* is logged and the call returns the empty list.
SelectDue(u, limit, query_fails) ==
    /\ returned' \in (IF query_fails THEN {<<>>} ELSE GetWordsForReview(u, limit))
    /\ UNCHANGED <<today, dbVars, botVars, outcome, txn>>

NextSelect ==
    \E u \in Users, limit \in Limits, query_fails \in BOOLEAN :
        SelectDue(u, limit, query_fails)

SpecSelect == InitSelect /\ [][NextSelect]_vars

\* ------------------------------------ get_words_for_review, called twice

\* Two calls of get_words_for_review(session, u, limit), one after the other,
\* with no write between them: the results of the first and of the second.
\* Each call runs the query anew, so each gets an order of its own among the
\* rows of one box, and each can fail on its own.
SelectDueTwice(u, limit, first_fails, second_fails) ==
    /\ \E first \in (IF first_fails THEN {<<>>} ELSE GetWordsForReview(u, limit)),
          second \in (IF second_fails THEN {<<>>} ELSE GetWordsForReview(u, limit)) :
            returned' = <<first, second>>
    /\ UNCHANGED <<today, dbVars, botVars, outcome, txn>>

NextSelectTwice ==
    \E u \in Users, limit \in Limits, first_fails, second_fails \in BOOLEAN :
        SelectDueTwice(u, limit, first_fails, second_fails)

SpecSelectTwice == InitSelect /\ [][NextSelectTwice]_vars

\* ------------------------------------------------- get_new_words, on its own

\* What a word of the vocabulary can be.
WordStates == {"active", "inactive", "deleted"}

\* Day 4: each word is active, inactive or gone, and each learner has a row
\* (a first answer, incorrect, on day 3) for any of the words that remain.
InitSelectNew ==
    /\ today = 4
    /\ words \in [SelectWords -> WordStates]
    /\ \E S \in SUBSET {k \in Users \X SelectWords : words[k[2]] # "deleted"} :
          progress = [k \in S |-> Committed(NewProgress(3), FALSE, NORMAL, 3)]
    /\ daily_word_limit = [u \in Users |-> DEFAULT_LIMIT]
    /\ txn = [p \in Procs |-> IdleTxn]
    /\ BotIdle

\* One call of get_new_words(session, u, limit).  A query that raises is
\* logged and the call returns the empty list.
SelectNew(u, limit, query_fails) ==
    /\ returned' \in (IF query_fails THEN {<<>>} ELSE GetNewWords(u, limit))
    /\ UNCHANGED <<today, dbVars, botVars, outcome, txn>>

NextSelectNew ==
    \E u \in Users, limit \in Limits, query_fails \in BOOLEAN :
        SelectNew(u, limit, query_fails)

SpecSelectNew == InitSelectNew /\ [][NextSelectNew]_vars

\* ------------------------------------------------ start_learning, on its own

\* The vocabulary of the specification of start_learning.
BeginWords == 1..4

\* The rows a pair can have on day 4 here: a first answer, incorrect, on day 3
\* (due on day 4) or on day 4 (due on day 5).
BeginRows == {Committed(NewProgress(d), FALSE, NORMAL, d) : d \in {3, 4}}

\* The daily limits of the learner: users.daily_word_limit is 1..100.
BeginLimits == {1, 2, 3, DEFAULT_LIMIT}

\* Day 4, the bot idle: the learner has a row, due or not, for any of the
\* words, the last word is active or not, and the daily limit is any of the
\* above.
InitBegin ==
    /\ today = 4
    /\ \E S \in SUBSET BeginWords :
         \E rows \in [S -> BeginRows] :
            progress = [k \in {<<1, w>> : w \in S} |-> rows[k[2]]]
    /\ \E last \in {"active", "inactive"} :
          words = [w \in BeginWords |-> IF w = 4 THEN last ELSE "active"]
    /\ \E limit \in BeginLimits :
          daily_word_limit = [u \in Users |-> IF u = 1 THEN limit ELSE DEFAULT_LIMIT]
    /\ txn = [p \in Procs |-> IdleTxn]
    /\ BotIdle

\* /learn, once.
NextBegin ==
    \E u \in Learners, fault \in StartFaults :
        /\ study_sessions = <<>>
        /\ StartLearning(u, fault)

SpecBegin == InitBegin /\ [][NextBegin]_vars

\* -------------------------------------------- get_user_statistics, on its own

\* sum(f[k] for k in S)
RECURSIVE SumOf(_, _)
SumOf(f, S) ==
    IF S = {} THEN 0
    ELSE LET k == CHOOSE x \in S : TRUE
         IN f[k] + SumOf(f, S \ {k})

\* The figures computed from the rows `all` of the table: the dictionary
\* get_user_statistics returns, without the accuracy.
Statistics(all) ==
    LET box_counts == [b \in 1..7 |->
                         Cardinality({k \in all : progress[k].leitner_box = b})]
    IN [total_words |-> Cardinality(all),
        mastered_words |-> box_counts[7],
        box_distribution |-> box_counts,
        total_reviews |-> SumOf([k \in all |-> progress[k].times_reviewed], all),
        total_correct |-> SumOf([k \in all |-> progress[k].times_correct], all),
        total_incorrect |-> SumOf([k \in all |-> progress[k].times_incorrect], all),
        due_today |-> Cardinality({k \in all : progress[k].next_review_date <= today})]

\* Mutant: the rows of every user are counted.
GetUserStatisticsOfEveryone(u) == Statistics(Pairs)

\* get_user_statistics: the figures of the rows of the user.
GetUserStatistics(u) == Statistics({k \in Pairs : k[1] = u})

\* What get_user_statistics returns when the query raises.
FailedStatistics ==
    [total_words |-> 0, mastered_words |-> 0, box_distribution |-> <<>>,
     total_reviews |-> 0, total_correct |-> 0, total_incorrect |-> 0,
     due_today |-> 0]

\* The rows a pair can have on day 4 here: those of the selection, and six
\* correct answers on day 0 (box 7, due on day 60).
StatsRows == RowChoices \cup {Promoted(6)}

\* Day 4: learner 1 has any of the rows above for any of the words, learner 2
\* has a due row for word 1 or none.
InitStats ==
    /\ today = 4
    /\ \E S \in SUBSET SelectWords, other \in BOOLEAN :
         \E rows \in [S -> StatsRows] :
            progress = [k \in {<<1, w>> : w \in S}
                                \cup (IF other THEN {<<2, 1>>} ELSE {}) |->
                           IF k[1] = 1 THEN rows[k[2]]
                           ELSE Committed(NewProgress(3), FALSE, NORMAL, 3)]
    /\ words = [w \in SelectWords |-> "active"]
    /\ daily_word_limit = [u \in Users |-> DEFAULT_LIMIT]
    /\ txn = [p \in Procs |-> IdleTxn]
    /\ BotIdle

\* One call of get_user_statistics(session, u).
ShowStatistics(u, query_fails) ==
    /\ returned' = IF query_fails THEN FailedStatistics ELSE GetUserStatistics(u)
    /\ outcome' = [outcome EXCEPT ![u] = "statistics"]
    /\ UNCHANGED <<today, dbVars, botVars, txn>>

NextStats == \E u \in Users, query_fails \in BOOLEAN : ShowStatistics(u, query_fails)

SpecStats == InitStats /\ [][NextStats]_vars

\* ------------------------------------------------------ the scheduler's claims

\* The schedule as the specification states it, {1:1, 2:2, 3:4, 4:7, 5:14, 6:30, 7:60}.
BOX_INTERVAL == <<1, 2, 4, 7, 14, 30, 60>>

\* The box a row is in before a call: 1 for the row the call creates.
PriorBox(u, w) == IF HasProgress(u, w) THEN progress[<<u, w>>].leitner_box ELSE 1

PriorIncorrect(u, w) == IF HasProgress(u, w) THEN progress[<<u, w>>].times_incorrect ELSE 0

PriorCorrect(u, w) == IF HasProgress(u, w) THEN progress[<<u, w>>].times_correct ELSE 0

PriorReviewed(u, w) == IF HasProgress(u, w) THEN progress[<<u, w>>].times_reviewed ELSE 0

\* C1: in every state reachable by any sequence of update calls, with any mix
\* of correct and incorrect answers and of difficulties, every row's box is in 1..7.
C1_BoxInRange == \A k \in Pairs : progress[k].leitner_box \in 1..7

\* A row that was answered correctly while it already was in box 7.
C1_Witness ==
    \E k \in Pairs : progress[k].leitner_box = 7 /\ progress[k].times_correct >= 7

\* C2: a correct answer with difficulty normal moves a row of box b in 1..6 to
\* box b+1, due today + BOX_INTERVAL[b+1], and leaves a row of box 7 in box 7.
C2_CorrectNormalPromotes ==
    [][\A k \in LeitnerPairs :
         UpdateWordProgress(k[1], k[2], TRUE, NORMAL, "none") =>
           LET b == PriorBox(k[1], k[2]) IN
             /\ b <= 6 => /\ progress'[k].leitner_box = b + 1
                          /\ progress'[k].next_review_date = today + BOX_INTERVAL[b + 1]
             /\ b = 7 => progress'[k].leitner_box = 7]_vars

\* Scenario A: a row of box 3 answered correct and normal is in box 4, due in 7 days.
C2_Witness ==
    \E k \in Pairs :
        /\ outcome[k[1]] = "updated"
        /\ progress[k].leitner_box = 4
        /\ progress[k].times_correct = 3 /\ progress[k].times_incorrect = 0
        /\ progress[k].difficulty = NORMAL
        /\ progress[k].updated_at = today
        /\ progress[k].next_review_date = today + 7

\* C3: an incorrect answer, with any difficulty or none, from any box, sets the
\* box to 1 and the due date to tomorrow and adds exactly 1 to times_incorrect.
C3_IncorrectResets ==
    [][\A k \in LeitnerPairs, d \in DifficultyArg :
         UpdateWordProgress(k[1], k[2], FALSE, d, "none") =>
             /\ progress'[k].leitner_box = 1
             /\ progress'[k].next_review_date = today + 1
             /\ progress'[k].times_incorrect = PriorIncorrect(k[1], k[2]) + 1]_vars

\* Scenario B: a row that had reached box 5 was answered incorrectly.
C3_Witness ==
    \E k \in Pairs :
        /\ outcome[k[1]] = "updated"
        /\ progress[k].leitner_box = 1
        /\ progress[k].times_correct = 4 /\ progress[k].times_incorrect = 1
        /\ progress[k].updated_at = today
        /\ progress[k].next_review_date = today + 1

\* The interval of a correct answer as the specification states it.
SpecInterval(newBox, d) ==
    IF d = "easy" /\ newBox < 7 THEN (BOX_INTERVAL[newBox] * 15) \div 10
    ELSE IF d = "hard"
         THEN (IF (BOX_INTERVAL[newBox] * 7) \div 10 >= 1
               THEN (BOX_INTERVAL[newBox] * 7) \div 10 ELSE 1)
         ELSE BOX_INTERVAL[newBox]

\* C4: a correct answer sets the due date to today plus floor(1.5 * base) for
\* easy below box 7, max(1, floor(0.7 * base)) for hard, and base otherwise,
\* base being the interval of the resulting box; for every prior box and difficulty.
C4_DifficultyInterval ==
    [][\A k \in LeitnerPairs, d \in DifficultyArg :
         UpdateWordProgress(k[1], k[2], TRUE, d, "none") =>
           LET b == PriorBox(k[1], k[2])
               newBox == IF b < 7 THEN b + 1 ELSE 7
           IN progress'[k].next_review_date = today + SpecInterval(newBox, d)]_vars

\* An easy answer into box 7 got the plain 60 days.
C4_Witness ==
    \E k \in Pairs :
        /\ outcome[k[1]] = "updated"
        /\ progress[k].leitner_box = 7
        /\ progress[k].difficulty = EASY
        /\ progress[k].updated_at = today
        /\ progress[k].next_review_date = today + 60

\* C6: every update that commits adds exactly 1 to times_reviewed and exactly 1
\* to one of times_correct (correct) and times_incorrect (incorrect), so
\* times_reviewed = times_correct + times_incorrect in every row, always.
C6_CountersAgree ==
    /\ [](\A k \in Pairs :
            progress[k].times_reviewed
                = progress[k].times_correct + progress[k].times_incorrect)
    /\ [][\A k \in LeitnerPairs, c \in BOOLEAN, d \in DifficultyArg :
            UpdateWordProgress(k[1], k[2], c, d, "none") =>
              /\ progress'[k].times_reviewed = PriorReviewed(k[1], k[2]) + 1
              /\ progress'[k].times_correct
                     = PriorCorrect(k[1], k[2]) + (IF c THEN 1 ELSE 0)
              /\ progress'[k].times_incorrect
                     = PriorIncorrect(k[1], k[2]) + (IF c THEN 0 ELSE 1)]_vars

\* A row with answers of both kinds.
C6_Witness ==
    \E k \in Pairs :
        /\ outcome[k[1]] = "updated"
        /\ progress[k].times_correct >= 2 /\ progress[k].times_incorrect >= 2

\* C7: the due date an update writes is at least one day after the day of the
\* review: never today or earlier, for any box, correctness and difficulty.
C7_DueAfterReview ==
    [][\A k \in LeitnerPairs, c \in BOOLEAN, d \in DifficultyArg :
         UpdateWordProgress(k[1], k[2], c, d, "none") =>
             progress'[k].next_review_date >= today + 1]_vars

\* The shortest intervals were written: an incorrect answer today, after a hard
\* correct answer into box 2.
C7_Witness ==
    \E k \in Pairs :
        /\ outcome[k[1]] = "updated"
        /\ progress[k].updated_at = today
        /\ progress[k].times_incorrect >= 1 /\ progress[k].times_correct >= 1
        /\ progress[k].difficulty = HARD
        /\ progress[k].next_review_date = today + 1

\* easy > normal > hard
Rank(d) == IF d = "easy" THEN 3 ELSE IF d = "normal" THEN 2 ELSE 1

\* The row was answered correctly today (the rows had no incorrect answer before).
CorrectToday(k) ==
    /\ k \in Pairs
    /\ progress[k].updated_at = today
    /\ progress[k].times_incorrect = 0

\* C5: for the same resulting box, the interval a correct answer assigns is at
\* least as long for easy as for normal, and for normal as for hard.
C5_DifficultyMonotone ==
    \A k1 \in ComparePairs, k2 \in ComparePairs :
        /\ CorrectToday(k1) /\ CorrectToday(k2)
        /\ progress[k1].leitner_box = progress[k2].leitner_box
        /\ Rank(progress[k1].difficulty) >= Rank(progress[k2].difficulty)
        => progress[k1].next_review_date - today >= progress[k2].next_review_date - today

\* Two correct answers into box 7: easy got 60 days, hard 42.
C5_Witness ==
    \E k1 \in ComparePairs, k2 \in ComparePairs :
        /\ CorrectToday(k1) /\ CorrectToday(k2)
        /\ progress[k1].leitner_box = 7 /\ progress[k2].leitner_box = 7
        /\ progress[k1].difficulty = EASY /\ progress[k2].difficulty = HARD
        /\ progress[k1].next_review_date > progress[k2].next_review_date

\* Both concurrent calls are over.
BothFinished == \A p \in Procs : txn[p].pc \in {"returned", "raised"}

\* The call that selected first: it saw the fewest reviews.
FirstReader ==
    CHOOSE p \in Procs :
        \A q \in Procs : txn[p].loaded.times_reviewed <= txn[q].loaded.times_reviewed

\* The row (or the new object) the two calls started from.
BaseRow == txn[FirstReader].loaded

\* The row that the call of p and then the call of q leave, one after the other.
OneAfterTheOther(p, q) ==
    Committed(Committed(BaseRow, txn[p].is_correct, txn[p].difficulty, today),
              txn[q].is_correct, txn[q].difficulty, today)

\* C8: two concurrent update calls for the same (learner, word) both complete,
\* and the stored row is what the two calls leave when run one after the other
\* in some order (times_reviewed grows by 2): no update is lost and none fails,
\* also when both are the first update of a pair without a row.
C8_Serialized ==
    BothFinished =>
        /\ \A p \in Procs : txn[p].pc = "returned"
        /\ HasProgress(ConcurrentPair[1], ConcurrentPair[2])
        /\ progress[ConcurrentPair].times_reviewed = BaseRow.times_reviewed + 2
        /\ \E p \in Procs, q \in Procs :
              p # q /\ progress[ConcurrentPair] = OneAfterTheOther(p, q)

\* ------------------------------------------------------ the session's claims

\* The learner is not Idle: user_data holds a session (its id, queue, cursor).
InSession(u) == STUDY_SESSION_ID \in DOMAIN user_data[u]

\* Presenting / AwaitingCorrectness: the session shows the prompt of a word.
Presenting(u) == InSession(u) /\ \E m \in MsgIds : chat[u][m].kind = "answer"

\* AwaitingDifficulty: the session shows a definition and asks for the rating.
AwaitingDifficulty(u) == InSession(u) /\ \E m \in MsgIds : chat[u][m].kind = "difficulty"

\* The cursor of the learner's session, -1 when user_data has none.
Cursor(u) == Get(user_data[u], WORD_INDEX, -1)

\* The counters of every StudySession.
SessionCounters ==
    [i \in DOMAIN study_sessions |->
        <<study_sessions[i].words_reviewed, study_sessions[i].words_correct,
          study_sessions[i].words_incorrect, study_sessions[i].new_words>>]

\* The step is a begin of the learner.
Begins(u) == \E fault \in StartFaults : StartLearning(u, fault)

\* The step is a submitCorrectness of the learner.
SubmitsCorrectness(u) ==
    \E m \in MsgIds, data \in AnswerData, delivery \in Deliveries, fault \in AnswerFaults :
        HandleAnswer(u, m, data, delivery, fault)

\* The step is a submitDifficulty of the learner.
SubmitsDifficulty(u) ==
    \E m \in MsgIds, data \in DifficultyData, delivery \in Deliveries,
       fault \in DifficultyFaults :
        HandleDifficulty(u, m, data, delivery, fault)

\* The step is a next or a stop of the learner.
Navigates(u) ==
    \E m \in MsgIds, data \in NavigationData, delivery \in Deliveries,
       fault \in NavigationFaults :
        HandleNextWord(u, m, data, delivery, fault)

\* C9: a begin issued while the learner has a session is rejected: the queue,
\* the cursor and the counters of the session stay as they are, and no second
\* StudySession is created.
C9_BeginRejectedWhileActive ==
    [][\A u \in Learners :
          InSession(u) /\ Begins(u) =>
             /\ Queue(user_data[u])' = Queue(user_data[u])
             /\ Cursor(u)' = Cursor(u)
             /\ study_sessions' = study_sessions]_vars

\* The step is a session event that the learner's state does not expect.
Unexpected(u) ==
    \/ SubmitsCorrectness(u) /\ ~Presenting(u)
    \/ SubmitsDifficulty(u) /\ ~AwaitingDifficulty(u)
    \/ ~InSession(u) /\ Navigates(u)

\* C10: a session event in a state that does not expect it (a correctness
\* outside Presenting, a difficulty outside AwaitingDifficulty, any event
\* while Idle) changes no row of user_word_progress, no session counter and
\* not the cursor.
C10_UnexpectedEventIsNoOp ==
    [][\A u \in Learners :
          Unexpected(u) =>
             /\ progress' = progress
             /\ SessionCounters' = SessionCounters
             /\ Cursor(u)' = Cursor(u)]_vars

\* C11: in every state of a session the cursor is at most the length of the
\* queue, len(words_to_review) + len(new_words).
C11_CursorWithinQueue ==
    \A u \in Learners :
        InSession(u) => Cursor(u) <= TotalWords(user_data[u])

\* The learner has answered the word today: update_word_progress has
\* committed its row on this day.
AnsweredToday(u, w) == HasProgress(u, w) /\ progress[<<u, w>>].updated_at = today

\* The words of the session's queue that the cursor has passed.
PassedWords(u) ==
    {Queue(user_data[u])[i] : i \in 1..Min(Cursor(u), TotalWords(user_data[u]))}

\* C12: the cursor of a session is past a word of the queue only if the word
\* was answered (an update of its row was committed) or no longer exists.
C12_PassedWordsAnswered ==
    \A u \in Learners :
        InSession(u) =>
            \A w \in PassedWords(u) : words[w] = "deleted" \/ AnsweredToday(u, w)

\* The step commits the update of the word at the learner's cursor, with the
\* correctness that handle_answer stored last.
UpdatesWordAtCursor(u) ==
    /\ InSession(u)
    /\ Cursor(u) < TotalWords(user_data[u])
    /\ LAST_ANSWER_CORRECT \in DOMAIN user_data[u]
    /\ \E difficulty \in Difficulty :
          progress' = ProgressAfterUpdate(u, Queue(user_data[u])[Cursor(u) + 1],
                                          user_data[u][LAST_ANSWER_CORRECT], difficulty)

\* C13: a submitDifficulty that updates a row updates the row of the word at
\* the cursor, with the correctness submitted last; never another word or
\* another correctness.
C13_UpdatesCurrentWord ==
    [][\A u \in Learners :
          SubmitsDifficulty(u) /\ progress' # progress => UpdatesWordAtCursor(u)]_vars

\* The words of a sequence, as a set.
Range(f) == {f[i] : i \in 1..Len(f)}

\* The words of the session's queue that the learner has answered.
AnsweredWords(u) == {w \in Range(Queue(user_data[u])) : AnsweredToday(u, w)}

\* A correct answer leaves its row in box 2 or higher, an incorrect one in box 1.
AnsweredCorrect(u) == {w \in AnsweredWords(u) : progress[<<u, w>>].leitner_box >= 2}

\* The StudySession row of the learner's session.
SessionRow(u) == study_sessions[user_data[u][STUDY_SESSION_ID]]

\* C14: at every point of a session its counters are the counts of the words
\* answered so far: words_reviewed the answered words of the queue,
\* words_correct / words_incorrect those answered correct / incorrect, and
\* new_words those of the new segment; so words_reviewed = words_correct +
\* words_incorrect and new_words <= len(new_words segment).
C14_CountersMatchAnswers ==
    \A u \in Learners :
        InSession(u) =>
            /\ SessionRow(u).words_reviewed = Cardinality(AnsweredWords(u))
            /\ SessionRow(u).words_correct = Cardinality(AnsweredCorrect(u))
            /\ SessionRow(u).words_incorrect =
                  Cardinality(AnsweredWords(u) \ AnsweredCorrect(u))
            /\ SessionRow(u).new_words =
                  Cardinality(AnsweredWords(u) \cap Range(Get(user_data[u], NEW_WORDS, <<>>)))
            /\ SessionRow(u).words_reviewed =
                  SessionRow(u).words_correct + SessionRow(u).words_incorrect
            /\ SessionRow(u).new_words <= Len(Get(user_data[u], NEW_WORDS, <<>>))

\* The step is a submitDifficulty of the learner whose store write fails: the
\* update of the row, or the commit of the session's statistics after it.
StoreWriteFails(u) ==
    \E m \in MsgIds, data \in DifficultyData, delivery \in Deliveries :
        \/ HandleDifficulty(u, m, data, delivery, "update")
        \/ HandleDifficulty(u, m, data, delivery, "refresh")
        \/ InSession(u) /\ HandleDifficulty(u, m, data, delivery, "stats")

\* C15: when the store write of a submitDifficulty fails the cursor is not
\* incremented: the session keeps its queue and points at the same word, so
\* that word is the one presented next.
C15_FailedWriteKeepsCursor ==
    [][\A u \in Learners :
          StoreWriteFails(u) =>
             /\ Cursor(u)' = Cursor(u)
             /\ Queue(user_data[u])' = Queue(user_data[u])
             /\ Get(user_data[u], CURRENT_WORD, 0)' = Get(user_data[u], CURRENT_WORD, 0)]_vars

\* A store write failed after the row of the word at the cursor was
\* committed: the row is updated, the session has counted nothing and still
\* points at the word.
C15_Witness ==
    /\ InSession(1)
    /\ outcome[1] = "error_generic"
    /\ chat[1][1].kind = "none"
    /\ Cursor(1) = 0
    /\ SessionRow(1).words_reviewed = 0
    /\ AnsweredToday(1, Queue(user_data[1])[1])
    /\ user_data[1][CURRENT_WORD] = Queue(user_data[1])[1]

\* C16: an update that fails (the call raises) leaves the row exactly as it
\* was before the call, so that no part of the update is stored.
C16_FailedUpdateLeavesRow ==
    [][\A k \in LeitnerPairs, c \in BOOLEAN, d \in DifficultyArg,
          f \in UpdateFaults \ {"none"} :
            UpdateWordProgress(k[1], k[2], c, d, f) => progress' = progress]_vars

\* C17: submitCorrectness (handle_answer) writes nothing to the store: no row
\* of user_word_progress is created or changed and no session counter
\* changes; that is left to the submitDifficulty for the word.
C17_AnswerWritesNothing ==
    [][\A u \in Learners :
          SubmitsCorrectness(u) =>
             /\ progress' = progress
             /\ study_sessions' = study_sessions]_vars

\* The learner has said "I know" for the new word 2 and is asked for the
\* rating: there is still no row for the word and the session has counted
\* nothing.
C17_Witness ==
    /\ InSession(1)
    /\ outcome[1] = "definition"
    /\ chat[1][1] = Definition(2, TRUE)
    /\ user_data[1][LAST_ANSWER_CORRECT] = TRUE
    /\ ~HasProgress(1, 2)
    /\ SessionRow(1).words_reviewed = 0

\* The word at the learner's cursor.
WordAtCursor(u) == Queue(user_data[u])[Cursor(u) + 1]

\* The learner's session has a word at its cursor, and the word exists.
HasCurrentWord(u) ==
    /\ InSession(u)
    /\ Cursor(u) < TotalWords(user_data[u])
    /\ words[WordAtCursor(u)] # "deleted"

\* The step presents the current word: show_next_word by the "Next Word" button.
PresentsWord(u) ==
    \E m \in MsgIds, delivery \in Deliveries, fault \in NavigationFaults :
        HandleNextWord(u, m, <<"next", "word">>, delivery, fault)

\* C18: presenting the current word, any number of times and with no answer
\* in between, shows the word at the cursor each time and leaves the cursor,
\* the queue and all session counters unchanged.
C18_PresentingIsIdempotent ==
    [][\A u \in Learners :
          HasCurrentWord(u) /\ PresentsWord(u) =>
             /\ Cursor(u)' = Cursor(u)
             /\ Queue(user_data[u])' = Queue(user_data[u])
             /\ SessionCounters' = SessionCounters
             /\ progress' = progress
             /\ outcome'[u] = "prompt" =>
                   /\ user_data'[u][CURRENT_WORD] = WordAtCursor(u)
                   /\ \E m \in MsgIds :
                         /\ chat'[u][m].kind = "answer"
                         /\ chat'[u][m].word_id = WordAtCursor(u)]_vars

\* The second word of the queue was presented twice in a row (the second
\* "Next Word" found its prompt already on the screen): the cursor is still 1
\* and the session has counted the one answer.
C18_Witness ==
    /\ Len(study_sessions) = 1
    /\ HasCurrentWord(1)
    /\ Cursor(1) = 1
    /\ outcome[1] = "error_generic"
    /\ chat[1][1].kind = "answer"
    /\ chat[1][1].word_id = WordAtCursor(1)
    /\ user_data[1][CURRENT_WORD] = WordAtCursor(1)
    /\ SessionRow(1).words_reviewed = 1

\* ------------------------------------------------------ the selection's claims

\* The rows of a result, as a set.
Returned == {returned[i] : i \in 1..Len(returned)}

\* C19: get_words_for_review returns at most `limit` rows, all of the given
\* learner and none due later than today.
C19_DueWithinLimit ==
    [][\A u \in Users, limit \in Limits, query_fails \in BOOLEAN :
          SelectDue(u, limit, query_fails) =>
             /\ Len(returned') <= limit
             /\ \A i \in 1..Len(returned') :
                   /\ returned'[i] \in Pairs
                   /\ returned'[i][1] = u
                   /\ progress[returned'[i]].next_review_date <= today]_vars

\* A call with limit 1 for learner 1, who has two due rows and one that is
\* not due, while learner 2 has a due row too: one row came back.
C19_Witness ==
    /\ Len(returned) = 1
    /\ returned[1][1] = 1
    /\ Cardinality(DueRows(1)) = 2
    /\ \E k \in Pairs : k[1] = 1 /\ progress[k].next_review_date > today
    /\ DueRows(2) # {}

\* C20: get_words_for_review returns the rows in non-decreasing box order, and
\* the truncation keeps the weakest: no due row of the learner that is left
\* out is in a strictly lower box than a row that was returned.
C20_WeakestFirst ==
    [][\A u \in Users, limit \in Limits, query_fails \in BOOLEAN :
          SelectDue(u, limit, query_fails) =>
             /\ \A i, j \in 1..Len(returned') :
                   i < j => progress[returned'[i]].leitner_box
                               <= progress[returned'[j]].leitner_box
             /\ \A k \in DueRows(u) \ Returned', i \in 1..Len(returned') :
                   progress[k].leitner_box >= progress[returned'[i]].leitner_box]_vars

\* Three due rows in the boxes 1, 2 and 3 and a call with limit 2: the rows of
\* the boxes 1 and 2 came back in this order, the row of box 3 was left out.
C20_Witness ==
    /\ Len(returned) = 2
    /\ progress[returned[1]].leitner_box = 1
    /\ progress[returned[2]].leitner_box = 2
    /\ \E k \in DueRows(1) \ Returned : progress[k].leitner_box = 3

\* C21: get_new_words returns at most `limit` words, each active and each
\* without a row of this learner; the rows of other learners do not exclude a
\* word: a call that does not fail and returns fewer than `limit` words
\* returns every active word the learner has no row for.
C21_NewWordsUnseenAndActive ==
    [][\A u \in Users, limit \in Limits, query_fails \in BOOLEAN :
          SelectNew(u, limit, query_fails) =>
             /\ Len(returned') <= limit
             /\ \A i \in 1..Len(returned') :
                   /\ words[returned'[i]] = "active"
                   /\ ~HasProgress(u, returned'[i])
             /\ (~query_fails /\ Len(returned') < limit) =>
                   \A w \in SelectWords :
                      (words[w] = "active" /\ ~HasProgress(u, w))
                         => \E i \in 1..Len(returned') : returned'[i] = w]_vars

\* One word came back for learner 1: learner 2 has a row for it, learner 1 has
\* a row for another word, and a third word is inactive.
C21_Witness ==
    /\ Len(returned) = 1
    /\ ~HasProgress(1, returned[1])
    /\ HasProgress(2, returned[1])
    /\ \E w \in SelectWords : w # returned[1] /\ HasProgress(1, w)
    /\ \E w \in SelectWords : words[w] = "inactive"

\* ------------------------------------------------- the claims about begin

\* The two segments user_data holds.
ReviewSegment(u) == Get(user_data[u], WORDS_TO_REVIEW, <<>>)

NewSegment(u) == Get(user_data[u], NEW_WORDS, <<>>)

\* start_learning stored a StudySession in this step.
BuildsSession(u) ==
    /\ \E fault \in StartFaults : StartLearning(u, fault)
    /\ Len(study_sessions') > Len(study_sessions)

\* C22: the review segment and the new segment of a session share no word,
\* and a word is in the new segment only if the learner had no row for it when
\* start_learning built the session.
C22_SegmentsDisjoint ==
    [][/\ \A u \in Users : Range(ReviewSegment(u)') \cap Range(NewSegment(u)') = {}
       /\ \A u \in Learners :
             BuildsSession(u) =>
                \A w \in Range(NewSegment(u)') : ~HasProgress(u, w)]_vars

\* A session with a review word and a new word.
C22_Witness ==
    \E u \in Learners :
        /\ InSession(u)
        /\ ReviewSegment(u) # <<>>
        /\ NewSegment(u) # <<>>

\* The faults of start_learning that leave both selections alone.
SelectionWorks == {fault \in StartFaults : ~ReviewFails(fault) /\ ~NewFails(fault)}

C24_NothingDueNoSession ==
    [][\A u \in Learners, fault \in StartFaults :
          (StartLearning(u, fault) /\ DueRows(u) = {} /\ UnseenWords(u) = {})
          => /\ outcome'[u] = "no_words"
             /\ study_sessions' = study_sessions
             /\ user_data'[u] = user_data[u]
             /\ chat'[u] = chat[u]
             /\ (~InSession(u) => ~InSession(u)')]_vars

\* /learn was answered with "nothing to review" while the learner was idle:
\* no row is due, no word is unseen, and the earlier session is the only one.
C24_Witness ==
    \E u \in Learners :
        /\ outcome[u] = "no_words"
        /\ DueRows(u) = {} /\ UnseenWords(u) = {}
        /\ user_data[u] = EmptyData
        /\ Len(study_sessions) = 1

\* A query of the selection raised in start_learning: that of
\* get_words_for_review, or that of get_new_words, which is called when the
\* due rows leave a slot.
SelectionFails(u, fault) ==
    \/ ReviewFails(fault)
    \/ NewFails(fault) /\ Cardinality(DueRows(u)) < daily_word_limit[u]

\* C25: if the store fails during the selection step of start_learning (the
\* query of the due rows or the query of the new words), no session is
\* created: no StudySession is stored and user_data gets no session.
C25_SelectionFailureNoSession ==
    [][\A u \in Learners, fault \in StartFaults :
          (StartLearning(u, fault) /\ SelectionFails(u, fault))
          => /\ study_sessions' = study_sessions
             /\ user_data'[u] = user_data[u]]_vars

\* ---------------------------------------------- the claims about stop

\* The figures of a StudySession.
Counters(row) ==
    <<row.words_reviewed, row.words_correct, row.words_incorrect, row.new_words>>

\* C26: "Stop Learning", tapped during a session, ends it early: the
\* StudySession gets its ended_at, the summary shows exactly the figures the
\* session has accumulated, the session is gone from user_data, and no row of
\* user_word_progress changes (the word that waits for an answer gets none).
C26_StopEndsSessionEarly ==
    [][\A u \in Learners, m \in MsgIds, delivery \in Deliveries,
          fault \in NavigationFaults :
          (HandleNextWord(u, m, <<"next", "stop">>, delivery, fault) /\ InSession(u))
          => LET sid == user_data[u][STUDY_SESSION_ID]
             IN /\ study_sessions'[sid].ended_at # NoTime
                /\ Counters(study_sessions'[sid]) = Counters(study_sessions[sid])
                /\ chat'[u][m] = Summary(study_sessions[sid])
                /\ progress' = progress
                /\ ~InSession(u)']_vars

\* The StudySession of user_data is one that has not been ended.
SessionOpen(u) ==
    InSession(u) => study_sessions[user_data[u][STUDY_SESSION_ID]].ended_at = NoTime

\* C27: the summary of a session is produced at most once.  A step that shows
\* a summary shows that of the session of user_data, which had none before,
\* and leaves user_data empty (no id, queues, index or pending answer); no
\* user_data ever holds a session that was summarised, so no later event
\* can summarise it again.
C27_SummaryOnlyOnce ==
    [][\A u \in Learners :
          /\ outcome'[u] = "summary" =>
                /\ InSession(u)
                /\ SessionOpen(u)
                /\ user_data'[u] = EmptyData
          /\ SessionOpen(u)']_vars

\* "Stop Learning" arrived twice: the first tap produced the summary, the
\* second found no session and was told that the session has ended.
C27_Witness ==
    \E u \in Learners :
        /\ outcome[u] = "session_ended"
        /\ user_data[u] = EmptyData
        /\ Len(study_sessions) = 1
        /\ study_sessions[1].ended_at # NoTime
        /\ study_sessions[1].words_reviewed = 1

\* ------------------------------------- the claim about words that are gone

\* The word at position i (from 0) of the queue of u is there and active.
Live(u, i) == words[Queue(user_data[u])[i + 1]] = "active"

\* "Next Word" is handled.
PresentsNext(u) ==
    \E m \in MsgIds : HandleNextWord(u, m, <<"next", "word">>, "once", "none")

\* C28: when the word at the index was deleted or deactivated after the
\* selection, the presenting step moves the index past every such word, counts
\* no review and updates no row, and then presents a word that is there and
\* active, or, the queue exhausted, ends the session.
C28_SkipsWordsThatAreGone ==
    [][\A u \in Learners :
          (/\ PresentsNext(u)
           /\ InSession(u)
           /\ Cursor(u) < TotalWords(user_data[u])
           /\ ~Live(u, Cursor(u)))
          => /\ progress' = progress
             /\ \A i \in 1..Len(study_sessions) :
                   Counters(study_sessions'[i]) = Counters(study_sessions[i])
             /\ \/ ~InSession(u)'
                   /\ \A i \in Cursor(u)..(TotalWords(user_data[u]) - 1) : ~Live(u, i)
                \/ /\ InSession(u)'
                   /\ Queue(user_data[u])' = Queue(user_data[u])
                   /\ Cursor(u)' > Cursor(u)
                   /\ \A i \in Cursor(u)..(Cursor(u)' - 1) : ~Live(u, i)
                   /\ Live(u, Cursor(u)')
                   /\ Get(user_data[u], CURRENT_WORD, 0)'
                         = Queue(user_data[u])[Cursor(u)' + 1]]_vars

\* ------------------------------------------- the claim about invalid input

\* The step leaves the rows, the sessions, the learner's queue and index and
\* the daily limits as they were.
NothingMutated ==
    /\ progress' = progress
    /\ study_sessions' = study_sessions
    /\ user_data' = user_data
    /\ chat' = chat
    /\ daily_word_limit' = daily_word_limit

\* C29: a difficulty that is none of easy, normal and hard, and a daily limit
\* outside 1..100 (or no number), are rejected and nothing is mutated: no row,
\* no counter of a session, no index, and the stored daily limit keeps its
\* value; so the daily limit is in 1..100 in every reachable state.
C29_InvalidInputRejected ==
    /\ \A u \in Users : daily_word_limit[u] \in 1..100
    /\ [][/\ \A u \in Users : daily_word_limit'[u] \in 1..100
          /\ \A u \in Learners, text \in LimitTexts, fault \in UpdateFaults :
                (/\ SetWordLimit(u, text, fault)
                 /\ (~IsInt(text) \/ Numeral[text] \notin 1..100))
                => NothingMutated /\ outcome'[u] \in {"invalid_number", "number_range"}
          /\ \A u \in Learners, data \in ForgedData :
                UnmatchedCallback(u, data)
                => NothingMutated /\ ~DecodeDifficulty(data).ok]_vars

\* The learner had set the limit to 7, is asked to rate a word, and sent a
\* limit out of range: it was refused and the limit is still 7.
C29_Witness ==
    \E u \in Learners :
        /\ outcome[u] = "number_range"
        /\ daily_word_limit[u] = 7
        /\ AwaitingDifficulty(u)

\* ---------------------------------------------- the claim about statistics

\* The rows of a user.
RowsOf(u) == {k \in Pairs : k[1] = u}

\* C30: the statistics of a learner agree with the learner's rows and change
\* none of them: total_words is the number of rows, box_distribution[b] the
\* number of rows in box b for b in 1..7 (they sum to total_words),
\* mastered_words is box_distribution[7], total_reviews is total_correct +
\* total_incorrect and each is the sum of the rows' counters, due_today is the
\* number of rows due today or earlier; without rows every figure is 0.
C30_StatisticsMatchRows ==
    [][\A u \in Users, query_fails \in BOOLEAN :
          ShowStatistics(u, query_fails) =>
             LET stats == returned'
                 all == RowsOf(u)
             IN /\ progress' = progress
                /\ stats.total_words = Cardinality(all)
                /\ DOMAIN stats.box_distribution = 1..7
                /\ \A b \in 1..7 :
                      stats.box_distribution[b]
                         = Cardinality({k \in all : progress[k].leitner_box = b})
                /\ SumOf(stats.box_distribution, 1..7) = stats.total_words
                /\ stats.mastered_words = stats.box_distribution[7]
                /\ stats.total_reviews = stats.total_correct + stats.total_incorrect
                /\ stats.total_reviews = SumReviewed(progress, all)
                /\ stats.total_correct
                      = SumOf([k \in all |-> progress[k].times_correct], all)
                /\ stats.due_today = Cardinality(DueRows(u))
                /\ (all = {} => /\ stats.total_words = 0
                                /\ stats.total_reviews = 0
                                /\ stats.due_today = 0
                                /\ stats.mastered_words = 0)]_vars

\* ------------------------------------------- the claim about repeated calls

\* C31: get_words_for_review is deterministic: two calls for the same learner
\* with the same limit on the same day, with no update between them, return
\* the same rows in the same order, also among rows of the same box.
C31_SelectDueDeterministic ==
    [][\A u \in Users, limit \in Limits, first_fails, second_fails \in BOOLEAN :
          SelectDueTwice(u, limit, first_fails, second_fails) =>
             returned'[1] = returned'[2]]_vars

\* ------------------------------------------------ the claims about the rows

\* The rows a first call of update_word_progress for a pair can store today.
FirstRows ==
    {Committed(NewProgress(today), is_correct, difficulty, today) :
        is_correct \in BOOLEAN, difficulty \in Difficulty}

\* The step is a difficulty tap of the learner that names the word.
SubmitsDifficultyFor(u, w) ==
    \E m \in MsgIds, data \in DifficultyData, delivery \in Deliveries,
       fault \in DifficultyFaults :
        /\ DecodeDifficulty(data).word_id = w
        /\ HandleDifficulty(u, m, data, delivery, fault)

\* C32: a pair (learner, word) has at most one row; a row comes into being only
\* in an update for its pair that finds none, one row at a time, and no step
\* of the session or of the scheduler removes a row: the set of rows only
\* grows, and an update for a pair that has a row adds none.
C32_RowsOnlyGrow ==
    [][/\ Pairs \subseteq Pairs'
       /\ Cardinality(Pairs' \ Pairs) <= 1
       /\ \A k \in Pairs' \ Pairs :
             /\ SubmitsDifficultyFor(k[1], k[2])
             /\ progress'[k] \in FirstRows
       /\ \A u \in Learners, w \in Words :
             (SubmitsDifficultyFor(u, w) /\ HasProgress(u, w)) => Pairs' = Pairs]_vars

\* The learner has rated word 2, which had no row, and has rated word 1
\* again, which had one: there are two rows, and the row of word 1 counts two
\* reviews.
C32_Witness ==
    /\ Pairs = {<<1, 1>>, <<1, 2>>}
    /\ progress[<<1, 1>>].times_reviewed = 2
    /\ progress[<<1, 2>>].times_reviewed = 1

\* C33: the first update for a pair without a row creates the row in box 1 and
\* applies the answer in the same call: after a first answer that is correct
\* and rated normal the row is in box 2, due in two days, with one review and
\* one correct answer; after a first incorrect answer, whatever the rating,
\* it is in box 1, due tomorrow, with one review and one incorrect answer.
C33_FirstUpdateCreatesAndApplies ==
    [][\A k \in LeitnerPairs, is_correct \in BOOLEAN, d \in DifficultyArg,
          store_fails \in {"none", "refresh"} :
          (~HasProgress(k[1], k[2])
              /\ UpdateWordProgress(k[1], k[2], is_correct, d, store_fails)) =>
             /\ k \in Pairs'
             /\ progress'[k].times_reviewed = 1
             /\ (is_correct /\ d = NORMAL) =>
                   /\ progress'[k].leitner_box = 2
                   /\ progress'[k].next_review_date = today + 2
                   /\ progress'[k].times_correct = 1
                   /\ progress'[k].times_incorrect = 0
             /\ ~is_correct =>
                   /\ progress'[k].leitner_box = 1
                   /\ progress'[k].next_review_date = today + 1
                   /\ progress'[k].times_correct = 0
                   /\ progress'[k].times_incorrect = 1]_vars

\* The pair got its row on day 1 by a correct answer rated normal: box 2, due
\* on day 3, one review, one correct answer.
C33_Witness ==
    /\ today = 1
    /\ outcome[1] = "updated"
    /\ HasProgress(1, 1)
    /\ progress[<<1, 1>>].times_reviewed = 1
    /\ progress[<<1, 1>>].times_correct = 1
    /\ progress[<<1, 1>>].leitner_box = 2
    /\ progress[<<1, 1>>].next_review_date = 3
    /\ progress[<<1, 1>>].difficulty = NORMAL

\* ------------------------------------- the claim about one update per word

\* times_reviewed of the row of the pair, 0 without a row.
TimesReviewed(table, u, w) ==
    IF <<u, w>> \in DOMAIN table THEN table[<<u, w>>].times_reviewed ELSE 0

\* The table when the first session begins: no update runs before it.
AtFirstBegin == WithRow(NoRows, 1, 1, Missed)

\* The learner is in the first session that was created.
InFirstSession(u) == InSession(u) /\ user_data[u][STUDY_SESSION_ID] = 1

\* C34: within one session the row of each word of the queue is updated at
\* most once, whatever the order of the events (a difficulty tap delivered
\* twice, a repeated next, a retry after a failed step): times_reviewed of a
\* word grows by at most 1 in the session, and words_reviewed of the session
\* never exceeds the length of the queue.
C34_OneUpdatePerWord ==
    \A u \in Learners :
        InFirstSession(u) =>
           /\ \A w \in Words :
                 TimesReviewed(progress, u, w) <= TimesReviewed(AtFirstBegin, u, w) + 1
           /\ SessionRow(u).words_reviewed <= TotalWords(user_data[u])

\* ------------------------------------- the claim about words answered today

\* C35: a word answered in a session is not selected again on the same day:
\* once update_word_progress has stored the row of (learner, word) today, the
\* word is neither among the learner's due words nor among the learner's new
\* words on that day, and a begin on that day queues no word answered that day.
C35_AnsweredNotSelectedAgain ==
    /\ [](\A u \in Learners, w \in Words :
             AnsweredToday(u, w) =>
                /\ progress[<<u, w>>].next_review_date > today
                /\ w \notin DueWords(u)
                /\ w \notin UnseenWords(u))
    /\ [][\A u \in Learners :
             BuildsSession(u) =>
                \A w \in Range(Queue(user_data'[u])) : ~AnsweredToday(u, w)]_vars

\* The second session of the day: word 1 was answered in the first, and the
\* queue holds word 2 alone.
C35_Witness ==
    /\ Len(study_sessions) = 2
    /\ InSession(1)
    /\ user_data[1][STUDY_SESSION_ID] = 2
    /\ AnsweredToday(1, 1)
    /\ Queue(user_data[1]) = <<2>>

\* ------------------------------------------ the claim about reaching box 7

\* C36: a row reaches box 7 only through an unbroken run of correct answers:
\* a row in box k has received at least k - 1 correct answers since it was
\* created or since its last incorrect answer, so a new word needs at least six
\* correct answers in a row to be mastered.  A row that was never answered
\* incorrectly is in box min(1 + times_correct, 7); an incorrect answer puts
\* the row in box 1, where a new row starts, and a correct answer moves it up
\* one box at most.
C36_BoxSevenNeedsSixCorrect ==
    /\ [](\A k \in Pairs :
             /\ progress[k].leitner_box <= 1 + progress[k].times_correct
             /\ progress[k].times_incorrect = 0 =>
                   progress[k].leitner_box = Min(1 + progress[k].times_correct, 7))
    /\ [][\A k \in LeitnerPairs, is_correct \in BOOLEAN, d \in DifficultyArg,
             store_fails \in {"none", "refresh"} :
             UpdateWordProgress(k[1], k[2], is_correct, d, store_fails) =>
                IF is_correct
                THEN progress'[k].leitner_box <= PriorBox(k[1], k[2]) + 1
                ELSE progress'[k].leitner_box = 1]_vars

\* A row in box 7 after six correct answers and no incorrect one.
C36_Witness ==
    \E k \in Pairs :
        /\ progress[k].leitner_box = 7
        /\ progress[k].times_correct = 6
        /\ progress[k].times_incorrect = 0

\* --------------------------------------- the claim about the other learners

\* The StudySessions of the user.
SessionsOf(v) ==
    [i \in {j \in DOMAIN study_sessions : study_sessions[j].user_id = v} |->
        study_sessions[i]]

\* C37: an update for (learner, word) changes the row of that pair only: the
\* rows of other learners and of other words stay as they are, and so do the
\* session data, the messages, the StudySessions and the statistics of every
\* other learner, however the two learners' sessions are interleaved.
C37_UpdateTouchesOnePair ==
    [][\A u \in Users, w \in Words :
          SubmitsDifficultyFor(u, w) =>
             /\ \A k \in Pairs \ {<<u, w>>} : k \in Pairs' /\ progress'[k] = progress[k]
             /\ Pairs' \ Pairs \subseteq {<<u, w>>}
             /\ \A v \in Users \ {u} :
                   /\ user_data'[v] = user_data[v]
                   /\ chat'[v] = chat[v]
                   /\ SessionsOf(v)' = SessionsOf(v)
                   /\ GetUserStatistics(v)' = GetUserStatistics(v)]_vars

\* Both learners are in a session and both have a row for word 1 that was
\* stored today, each with the learner's own answer.
C37_Witness ==
    /\ InSession(1) /\ InSession(2)
    /\ AnsweredToday(1, 1) /\ AnsweredToday(2, 1)
    /\ progress[<<1, 1>>].times_reviewed = 2
    /\ progress[<<2, 1>>].times_reviewed = 1
    /\ progress[<<1, 1>>].leitner_box # progress[<<2, 1>>].leitner_box

\* ----------------------------------------------- the claim about the end

\* C38: a session whose learner keeps answering terminates: the queue is what
\* begin made it, each completed answer moves the cursor on by one, and when
\* the cursor has reached the length of the queue the next presenting step
\* shows the summary and clears the session, so every session that was begun
\* is ended at some time.
C38_SessionTerminates ==
    \A u \in Learners : InSession(u) ~> ~InSession(u)

\* ------------------------------------------- the claim about the reminder

\* C39: the button "Later" of the daily reminder (start:later) starts nothing;
\* only "Start Now" (start:now) begins a session: after "Later" no
\* StudySession has been stored and no queue or cursor has been set.
C39_LaterStartsNothing ==
    [][\A u \in Learners, m \in MsgIds, fault \in StartFaults :
          StartLearningFromReminder(u, m, <<"start", "later">>, fault) =>
             /\ study_sessions' = study_sessions
             /\ user_data'[u] = user_data[u]]_vars

====
